---- MODULE Spec2Model ----
(***************************************************************************)
(* AgentMint: token mint / verify service.                                 *)
(*                                                                         *)
(* Time is counted in clock ticks; one second is TicksPerSec ticks, so     *)
(* that a full-resolution instant (chrono DateTime<Utc>) and its whole     *)
(* unix second (DateTime::timestamp) are different things.                 *)
(*                                                                         *)
(* A token is a sequence of characters.  A character is a number:          *)
(*   0..63    the base64url symbol with that 6-bit value                   *)
(*   PadChar  '='      DotChar  '.'      BadChar  a byte outside the       *)
(*                                       whitelist of validate_base64_url  *)
(* A byte is a number in 0..255.                                           *)
(***************************************************************************)
EXTENDS Integers, Sequences, FiniteSets, TLC

\* ------------------------------------------------------------------ bounds

TicksPerSec == 2
MaxNow == 3
NumJti == 3
max_capacity == 2
MaxCalls == 3
MaxReq == 3
MaxMint == 2
MaxRateCalls == 3
global_per_sec == 1
per_ip_per_min == 1
per_user_per_min == 2
NumIp == 2
NumUser == 2
MaxWaCalls == 6
\* MAX_CHALLENGES is 10 000 in the source; it is scaled down so that the
\* users of the model fill a challenge map.
MAX_CHALLENGES == 1
NumSlot == 2
MaxRegStart == 1
MaxRegFinish == 1
MaxAuthStart == 5
MaxAuthFinish == 6
MaxWaPass == 2
MaxOverlap == 2
MaxFill == 5
MaxAuditCalls == 4
MaxLimit == 3
NumThreads == 2
MaxBoots == 2
MaxRaceStart == 6
MaxRacePass == 3
MaxMintReq == 3

\* --------------------------------------------------------------- constants

MAX_TOKEN_BYTES == 2048
SIGNATURE_LENGTH == 64
PadChar == 64
DotChar == 65
BadChar == 66
TTL_MIN == 1
TTL_MAX == 300
WINDOW == 60
CLEANUP_INTERVAL == 300
GLOBAL_WINDOW == 1
CLEANUP_SLACK == 60
LOCKOUT_THRESHOLD == 5
LOCKOUT_DURATION == 900
CHALLENGE_TTL == 300

\* ------------------------------------------------------------------- state

VARIABLES
    now,        \* the wall clock (Utc::now()), in ticks
    entries,    \* JtiStore.entries: jti -> exp in whole unix seconds
    jlog,       \* results of the check_and_insert calls made so far
    signing_key,    \* AppStateInner.signing_key (verifying_key is derived)
    oidc,           \* AppStateInner.oidc is Some(_)
    require_oidc,   \* AppStateInner.require_oidc
    request_count,  \* AppStateInner.request_count
    metrics,        \* AppStateInner.metrics, the counters
    audit,          \* the rows of table audit_log, in rowid order
    minted,         \* the tokens /mint has returned, with their claims
    last_mint,      \* the last /mint request and the kind of its response
    mint_count,     \* the number of /mint requests handled
    reqs,           \* the /proxy requests: place in the handler, result
    vt_in,          \* verify_token on its own: the token, how it was built
    vt_out,         \* verify_token on its own: the result
    rl,             \* AppStateInner.rate_limiter: RateLimitState
    rlog,           \* the check_ip / check_user calls made so far
    wa,             \* AppStateInner.webauthn: the maps of WebAuthnState
    wlog,           \* the last WebAuthnState call, the number of calls made and,
                    \* per user, the failures since the last clear and the
                    \* instant of the latest of them
    wreq,           \* the WebAuthn requests in flight: handler, place in it,
                    \* the challenge entry taken
    whist,          \* the WebAuthn requests made so far: how many, the last
                    \* one answered, the challenges issued, the failed
                    \* authentications of each user since the last success
    alog,           \* AuditLog on its own: the last call, its result, the
                    \* number of calls made, the jtis logged with success
    boots,          \* how many times the process has been started
    rl_ref,         \* a rate limiter that is given the calls rl is given
                    \* and never cleans up
    mreq,           \* the /mint requests in flight, step by step
    lreq,           \* the locks alone: the handler each thread runs and how
                    \* many of its lock and unlock steps it has taken
    err_in,         \* the Error a handler has returned: kind, inner value
    err_out,        \* the response made of it: status, body
    pol_in,         \* PolicyEngine::check on its own: the limits, the action
    pol_out         \* PolicyEngine::check on its own: the result

cfg_vars == <<signing_key, oidc, require_oidc>>
tok_vars == <<vt_in, vt_out>>
fn_vars == <<pol_in, pol_out>>
wh_vars == <<wreq, whist>>
aud_vars == <<alog>>
err_vars == <<err_in, err_out>>
lock_vars == <<lreq>>
late_vars == <<boots, rl_ref, mreq>>
lib_vars == <<aud_vars, err_vars, lock_vars, late_vars>>
ext_vars == <<rl, rlog, wa, wlog, wh_vars, fn_vars, lib_vars>>
svc_vars == <<cfg_vars, request_count, metrics, audit, minted, last_mint,
              mint_count, reqs, ext_vars>>
vars == <<now, entries, jlog, svc_vars, tok_vars>>

\* ------------------------------------------------------------- sequences

Last(s) == s[Len(s)]

\* DateTime::timestamp(): the whole unix second of an instant.
timestamp(t) == t \div TicksPerSec

\* ---------------------------------------------------------------- base64

Base64Alphabet == 0..63

\* URL_SAFE_NO_PAD.encode: three bytes make four symbols; a rest of one byte
\* makes two symbols, a rest of two bytes three symbols, no padding.
RECURSIVE B64Encode(_)
B64Encode(bytes) ==
    IF Len(bytes) = 0 THEN << >>
    ELSE IF Len(bytes) = 1 THEN
        << bytes[1] \div 4, (bytes[1] % 4) * 16 >>
    ELSE IF Len(bytes) = 2 THEN
        << bytes[1] \div 4,
           (bytes[1] % 4) * 16 + bytes[2] \div 16,
           (bytes[2] % 16) * 4 >>
    ELSE
        << bytes[1] \div 4,
           (bytes[1] % 4) * 16 + bytes[2] \div 16,
           (bytes[2] % 16) * 4 + bytes[3] \div 64,
           bytes[3] % 64 >> \o B64Encode(SubSeq(bytes, 4, Len(bytes)))

\* The symbols of a segment that passed the checks of B64DecodeOk.
RECURSIVE B64DecodeBytes(_)
B64DecodeBytes(chars) ==
    IF Len(chars) < 2 THEN << >>
    ELSE IF Len(chars) = 2 THEN
        << chars[1] * 4 + chars[2] \div 16 >>
    ELSE IF Len(chars) = 3 THEN
        << chars[1] * 4 + chars[2] \div 16,
           (chars[2] % 16) * 16 + chars[3] \div 4 >>
    ELSE
        << chars[1] * 4 + chars[2] \div 16,
           (chars[2] % 16) * 16 + chars[3] \div 4,
           (chars[3] % 4) * 64 + chars[4] >> \o B64DecodeBytes(SubSeq(chars, 5, Len(chars)))

\* URL_SAFE_NO_PAD.decode fails (DecodeError) on a symbol outside the
\* alphabet, '=' included (padding is not accepted), on a length of 1 mod 4,
\* and on a last symbol whose unused low bits are not zero.
B64DecodeOk(chars) ==
    /\ \A i \in 1..Len(chars) : chars[i] \in Base64Alphabet
    /\ Len(chars) % 4 # 1
    /\ (Len(chars) % 4 = 2 => Last(chars) % 16 = 0)
    /\ (Len(chars) % 4 = 3 => Last(chars) % 4 = 0)

B64Decode(chars) ==
    IF B64DecodeOk(chars)
    THEN [ok |-> TRUE, bytes |-> B64DecodeBytes(chars)]
    ELSE [ok |-> FALSE, bytes |-> << >>]

\* ---------------------------------------------------------------- claims

\* Claims::new: iat is the clock, exp is iat plus ttl_seconds whole seconds.
\* The jti is a fresh random UUID, drawn by the caller of this operator.
ClaimsNew(jti, sub, action, ttl_seconds, t) ==
    [jti |-> jti, sub |-> sub, action |-> action,
     iat |-> t, exp |-> t + ttl_seconds * TicksPerSec]

\* Claims::is_expired: Utc::now() > self.exp, at full resolution.
is_expired(claims, t) == t > claims.exp

\* serde_json::to_vec(claims): the five fields in declaration order.  The
\* strings are written with their length, an instant as two bytes.
ToJson(c) ==
    << c.jti, Len(c.sub) >> \o c.sub \o << Len(c.action) >> \o c.action
       \o << c.iat \div 256, c.iat % 256, c.exp \div 256, c.exp % 256 >>

\* serde_json::from_slice::<Claims>: fails unless the bytes are exactly one
\* serialized Claims.
JsonOk(b) ==
    /\ Len(b) >= 2
    /\ Len(b) >= 3 + b[2]
    /\ Len(b) = 7 + b[2] + b[3 + b[2]]

FromJson(b) ==
    LET n == b[2]
        m == b[3 + n]
    IN  [jti    |-> b[1],
         sub    |-> SubSeq(b, 3, 2 + n),
         action |-> SubSeq(b, 4 + n, 3 + n + m),
         iat    |-> b[4 + n + m] * 256 + b[5 + n + m],
         exp    |-> b[6 + n + m] * 256 + b[7 + n + m]]

\* --------------------------------------------------------------- ed25519

\* SigningKey::sign: deterministic, 64 bytes.  The scheme is taken as ideal:
\* the signature determines the key and the message (messages of the model
\* are shorter than SIGNATURE_LENGTH - 2 symbols), and only the signature the
\* key's owner computes verifies.
Ed25519Sign(key, msg) ==
    [i \in 1..SIGNATURE_LENGTH |->
        IF i = 1 THEN key
        ELSE IF i = 2 THEN Len(msg)
        ELSE IF i - 2 <= Len(msg) THEN msg[i - 2] ELSE 0]

\* SigningKey::verifying_key: a key pair is named by one number.
verifying_key(key) == key

\* VerifyingKey::verify.
Ed25519Verify(vkey, msg, sig) == sig = Ed25519Sign(vkey, msg)

\* ------------------------------------------------------------ sign_token

\* The token of an encoded-payload segment signed as it stands.
SignSegment(encoded_payload, key) ==
    encoded_payload \o << DotChar >> \o B64Encode(Ed25519Sign(key, encoded_payload))

\* sign_token signing the JSON bytes instead of the encoded segment.
sign_token_SignsJson(claims, key) ==
    B64Encode(ToJson(claims)) \o << DotChar >>
        \o B64Encode(Ed25519Sign(key, ToJson(claims)))

sign_token(claims, key) == SignSegment(B64Encode(ToJson(claims)), key)

\* ---------------------------------------------------------- verify_token

validate_base64_url(input) ==
    \A i \in 1..Len(input) : input[i] \in Base64Alphabet \cup {PadChar}

\* str::split_once('.'): the place of the first '.', 0 when there is none.
RECURSIVE FirstDotFrom(_, _)
FirstDotFrom(token, i) ==
    IF i > Len(token) THEN 0
    ELSE IF token[i] = DotChar THEN i
    ELSE FirstDotFrom(token, i + 1)

FirstDot(token) == FirstDotFrom(token, 1)

NoClaims == [jti |-> 0, sub |-> << >>, action |-> << >>, iat |-> 0, exp |-> 0]

Failed(kind, parsed) == [ok |-> FALSE, err |-> kind, claims |-> NoClaims, parsed |-> parsed]

\* verify_token parsing the payload and testing the expiry before it
\* verifies the signature.
verify_token_ExpiryFirst(token, key, t) ==
    IF Len(token) > MAX_TOKEN_BYTES THEN Failed("InvalidToken", FALSE)
    ELSE
      LET dot         == FirstDot(token)
          payload_b64 == SubSeq(token, 1, dot - 1)
          sig_b64     == SubSeq(token, dot + 1, Len(token))
          sig         == B64Decode(sig_b64)
          payload     == B64Decode(payload_b64)
      IN  IF dot = 0 THEN Failed("InvalidToken", FALSE)
          ELSE IF ~validate_base64_url(payload_b64) THEN Failed("InvalidToken", FALSE)
          ELSE IF ~validate_base64_url(sig_b64) THEN Failed("InvalidToken", FALSE)
          ELSE IF ~sig.ok THEN Failed("Base64", FALSE)
          ELSE IF Len(sig.bytes) # SIGNATURE_LENGTH THEN Failed("InvalidToken", FALSE)
          ELSE IF ~payload.ok THEN Failed("Base64", TRUE)
          ELSE IF ~JsonOk(payload.bytes) THEN Failed("Serialization", TRUE)
          ELSE IF is_expired(FromJson(payload.bytes), t) THEN Failed("TokenExpired", TRUE)
          ELSE IF ~Ed25519Verify(key, payload_b64, sig.bytes)
               THEN Failed("InvalidSignature", TRUE)
          ELSE [ok |-> TRUE, err |-> "none", claims |-> FromJson(payload.bytes),
                parsed |-> TRUE]

\* verify_token at clock t.  parsed tells whether the payload segment was
\* handed to the base64 decoder and the JSON parser.
verify_token(token, key, t) ==
    IF Len(token) > MAX_TOKEN_BYTES THEN Failed("InvalidToken", FALSE)
    ELSE
      LET dot         == FirstDot(token)
          payload_b64 == SubSeq(token, 1, dot - 1)
          sig_b64     == SubSeq(token, dot + 1, Len(token))
          sig         == B64Decode(sig_b64)
          payload     == B64Decode(payload_b64)
      IN  IF dot = 0 THEN Failed("InvalidToken", FALSE)
          ELSE IF ~validate_base64_url(payload_b64) THEN Failed("InvalidToken", FALSE)
          ELSE IF ~validate_base64_url(sig_b64) THEN Failed("InvalidToken", FALSE)
          ELSE IF ~sig.ok THEN Failed("Base64", FALSE)
          ELSE IF Len(sig.bytes) # SIGNATURE_LENGTH THEN Failed("InvalidToken", FALSE)
          ELSE IF ~Ed25519Verify(key, payload_b64, sig.bytes)
               THEN Failed("InvalidSignature", FALSE)
          ELSE IF ~payload.ok THEN Failed("Base64", TRUE)
          ELSE IF ~JsonOk(payload.bytes) THEN Failed("Serialization", TRUE)
          ELSE IF is_expired(FromJson(payload.bytes), t) THEN Failed("TokenExpired", TRUE)
          ELSE [ok |-> TRUE, err |-> "none", claims |-> FromJson(payload.bytes),
                parsed |-> TRUE]

\* ----------------------------------------------------------------- Error

\* The variants of Error that carry no inner value, and those that do.
UnitKinds == {"TokenExpired", "InvalidSignature"}
DetailKinds ==
    {"InvalidToken", "ReplayDetected", "Validation", "ServiceUnavailable",
     "Database", "Serialization", "Base64", "Signing"}

\* The variants the handlers return that the declaration of Error at hand
\* does not list, with the status and the client message the
\* specification gives them: a categorical label.
MissingKinds == {"Unauthorized", "PolicyViolation", "RateLimited"}

MissingStatus(kind) ==
    CASE kind = "Unauthorized" -> 401
      [] kind = "PolicyViolation" -> 403
      [] kind = "RateLimited" -> 429

MissingMessage(kind) ==
    CASE kind = "Unauthorized" -> "unauthorized"
      [] kind = "PolicyViolation" -> "policy violation"
      [] kind = "RateLimited" -> "rate limited"

\* client_message with the Display text of a replay: the jti goes out.
client_message_LeaksJti(err) ==
    CASE err.kind = "TokenExpired" -> "token expired"
      [] err.kind = "InvalidSignature" -> "invalid signature"
      [] err.kind = "InvalidToken" -> "invalid token"
      [] err.kind = "ReplayDetected" -> "token already used (jti: " \o err.detail \o ")"
      [] err.kind = "Validation" -> err.detail
      [] err.kind = "ServiceUnavailable" -> "service temporarily unavailable"
      [] err.kind = "Database" -> "internal error"
      [] err.kind = "Serialization" -> "invalid request body"
      [] err.kind = "Base64" -> "invalid encoding"
      [] err.kind = "Signing" -> "internal error"
      [] err.kind \in MissingKinds -> MissingMessage(err.kind)

\* client_message.
client_message(err) ==
    CASE err.kind = "TokenExpired" -> "token expired"
      [] err.kind = "InvalidSignature" -> "invalid signature"
      [] err.kind = "InvalidToken" -> "invalid token"
      [] err.kind = "ReplayDetected" -> "token rejected"
      [] err.kind = "Validation" -> err.detail
      [] err.kind = "ServiceUnavailable" -> "service temporarily unavailable"
      [] err.kind = "Database" -> "internal error"
      [] err.kind = "Serialization" -> "invalid request body"
      [] err.kind = "Base64" -> "invalid encoding"
      [] err.kind = "Signing" -> "internal error"
      [] err.kind \in MissingKinds -> MissingMessage(err.kind)

\* The status with Base64 among the internal errors.
status_of_Base64Internal(err) ==
    CASE err.kind \in {"TokenExpired", "InvalidSignature", "InvalidToken"} -> 401
      [] err.kind = "ReplayDetected" -> 409
      [] err.kind = "Validation" -> 400
      [] err.kind = "ServiceUnavailable" -> 503
      [] err.kind \in {"Database", "Serialization", "Signing", "Base64"} -> 500
      [] err.kind \in MissingKinds -> MissingStatus(err.kind)

\* The status into_response picks.
status_of(err) ==
    CASE err.kind \in {"TokenExpired", "InvalidSignature", "InvalidToken"} -> 401
      [] err.kind = "ReplayDetected" -> 409
      [] err.kind \in {"Validation", "Base64"} -> 400
      [] err.kind = "ServiceUnavailable" -> 503
      [] err.kind \in {"Database", "Serialization", "Signing"} -> 500
      [] err.kind \in MissingKinds -> MissingStatus(err.kind)

\* into_response: (status, client_message(&self)).
into_response(err) ==
    [done |-> TRUE, status |-> status_of(err), body |-> client_message(err)]

\* -------------------------------------------------------------- JtiStore

Jtis == 1..NumJti

\* The instants of the model, and the expiry seconds a caller may pass.
Ticks == 0..MaxNow
ExpSecs == 1..(timestamp(MaxNow) + 1)

EmptyMap == << >>

\* HashMap::insert.
MapInsert(m, k, v) == [x \in DOMAIN m \cup {k} |-> IF x = k THEN v ELSE m[x]]

\* The counter of a key in a map, or that there is none.
CounterOf(m, key) == IF key \in DOMAIN m THEN << m[key] >> ELSE << >>

\* JtiStore::cleanup_expired_inner: retain the entries with exp > now, now in
\* whole unix seconds.
cleanup_expired_inner(es, t) ==
    [j \in {k \in DOMAIN es : es[k] > timestamp(t)} |-> es[j]]

\* check_and_insert without the contains_key test.
check_and_insert_NoPresenceTest(es, jti, exp, t) ==
    LET kept == cleanup_expired_inner(es, t)
    IN  IF Cardinality(DOMAIN kept) >= max_capacity
        THEN [res |-> "ServiceUnavailable", entries |-> kept]
        ELSE [res |-> "Ok", entries |-> MapInsert(kept, jti, exp)]

\* check_and_insert with the capacity test off by one (> for >=).
check_and_insert_OffByOne(es, jti, exp, t) ==
    LET kept == cleanup_expired_inner(es, t)
    IN  IF Cardinality(DOMAIN kept) > max_capacity
        THEN [res |-> "ServiceUnavailable", entries |-> kept]
        ELSE IF jti \in DOMAIN kept
        THEN [res |-> "ReplayDetected", entries |-> kept]
        ELSE [res |-> "Ok", entries |-> MapInsert(kept, jti, exp)]

\* check_and_insert with the capacity test before the eviction.
check_and_insert_CapacityFirst(es, jti, exp, t) ==
    LET kept == cleanup_expired_inner(es, t)
    IN  IF Cardinality(DOMAIN es) >= max_capacity
        THEN [res |-> "ServiceUnavailable", entries |-> kept]
        ELSE IF jti \in DOMAIN kept
        THEN [res |-> "ReplayDetected", entries |-> kept]
        ELSE [res |-> "Ok", entries |-> MapInsert(kept, jti, exp)]

\* JtiStore::check_and_insert at clock t, the whole body under the store's
\* mutex: the result and the store it leaves.
\* check_and_insert with the presence test before the capacity test.
check_and_insert_PresenceFirst(es, jti, exp, t) ==
    LET kept == cleanup_expired_inner(es, t)
    IN  IF jti \in DOMAIN kept
        THEN [res |-> "ReplayDetected", entries |-> kept]
        ELSE IF Cardinality(DOMAIN kept) >= max_capacity
        THEN [res |-> "ServiceUnavailable", entries |-> kept]
        ELSE [res |-> "Ok", entries |-> MapInsert(kept, jti, exp)]

check_and_insert(es, jti, exp, t) ==
    LET kept == cleanup_expired_inner(es, t)
    IN  IF Cardinality(DOMAIN kept) >= max_capacity
        THEN [res |-> "ServiceUnavailable", entries |-> kept]
        ELSE IF jti \in DOMAIN kept
        THEN [res |-> "ReplayDetected", entries |-> kept]
        ELSE [res |-> "Ok", entries |-> MapInsert(kept, jti, exp)]

\* The entries of a store that are live in unix second sec, at clock t.
LiveSec(es, sec) == {k \in DOMAIN es : es[k] > sec}
Live(es, t) == LiveSec(es, timestamp(t))

\* ------------------------------------------------------------------ clock

Tick ==
    /\ now < MaxNow
    /\ now' = now + 1
    /\ UNCHANGED <<entries, jlog, svc_vars, tok_vars>>

\* ---------------------------------------------------------------- policy

COLON == 58

\* str::split(':').
RECURSIVE Split(_)
Split(s) ==
    IF \E i \in 1..Len(s) : s[i] = COLON
    THEN LET i == CHOOSE i \in 1..Len(s) :
                    s[i] = COLON /\ \A j \in 1..(i - 1) : s[j] # COLON
         IN  << SubSeq(s, 1, i - 1) >> \o Split(SubSeq(s, i + 1, Len(s)))
    ELSE << s >>

\* parse_action_type: the action up to its first ':'.
parse_action_type(action) == Split(action)[1]

\* "amount"
AMOUNT == << 97, 109, 111, 117, 110, 116 >>

IsDigit(c) == c \in 48..57

RECURSIVE DecValue(_)
DecValue(ds) ==
    IF Len(ds) = 0 THEN 0
    ELSE DecValue(SubSeq(ds, 1, Len(ds) - 1)) * 10 + (Last(ds) - 48)

\* "18446744073709551615", the numeral of u64::MAX = 2^64 - 1.
U64_MAX == << 49, 56, 52, 52, 54, 55, 52, 52, 48, 55,
              51, 55, 48, 57, 53, 53, 49, 54, 49, 53 >>

\* The digits ds are the numeral of a value that is at most u64::MAX: the
\* checked multiplications and additions of the parse all succeed.  Told
\* from the numeral itself, leading zeros aside: shorter than that of
\* u64::MAX, or as long and not after it digit by digit.
FitsU64(ds) ==
    LET z == Cardinality({i \in 1..Len(ds) : \A j \in 1..i : ds[j] = 48})
        n == SubSeq(ds, z + 1, Len(ds))
    IN  \/ Len(n) < Len(U64_MAX)
        \/ /\ Len(n) = Len(U64_MAX)
           /\ \/ n = U64_MAX
              \/ \E i \in 1..Len(n) : /\ n[i] < U64_MAX[i]
                                       /\ \A j \in 1..(i - 1) : n[j] = U64_MAX[j]

\* str::parse::<u64>() of a segment: an optional '+', then digits only, at
\* least one, of a value that fits u64; anything else is an Err.  (The
\* amounts of the model that fit stay far below 2^64.)
ParseU64(seg) ==
    LET ds == IF Len(seg) > 0 /\ seg[1] = 43 THEN SubSeq(seg, 2, Len(seg)) ELSE seg
    IN  IF Len(ds) > 0 /\ (\A i \in 1..Len(ds) : IsDigit(ds[i])) /\ FitsU64(ds)
        THEN [some |-> TRUE, val |-> DecValue(ds)]
        ELSE [some |-> FALSE, val |-> 0]

\* parse_amount taking the segment after the last "amount" segment.
parse_amount_LastAmount(action) ==
    LET parts == Split(action)
    IN  IF \E i \in 1..Len(parts) : parts[i] = AMOUNT
        THEN LET i == CHOOSE i \in 1..Len(parts) :
                        parts[i] = AMOUNT
                        /\ \A j \in (i + 1)..Len(parts) : parts[j] # AMOUNT
             IN  IF i < Len(parts) THEN ParseU64(parts[i + 1])
                 ELSE [some |-> FALSE, val |-> 0]
        ELSE [some |-> FALSE, val |-> 0]

\* parse_amount: the segment after the first "amount" segment, parsed.
parse_amount(action) ==
    LET parts == Split(action)
    IN  IF \E i \in 1..Len(parts) : parts[i] = AMOUNT
        THEN LET i == CHOOSE i \in 1..Len(parts) :
                        parts[i] = AMOUNT /\ \A j \in 1..(i - 1) : parts[j] # AMOUNT
             IN  IF i < Len(parts) THEN ParseU64(parts[i + 1])
                 ELSE [some |-> FALSE, val |-> 0]
        ELSE [some |-> FALSE, val |-> 0]

\* PolicyEngine::check with limits: action_type -> max_amount.
PolicyCheck(limits, action) ==
    LET action_type == parse_action_type(action)
        amount == parse_amount(action)
    IN  IF action_type \notin DOMAIN limits THEN [ok |-> TRUE]
        ELSE IF ~amount.some THEN [ok |-> TRUE]
        ELSE IF amount.val > limits[action_type]
        THEN [ok |-> FALSE, action_type |-> action_type,
              limit |-> limits[action_type], requested |-> amount.val]
        ELSE [ok |-> TRUE]

\* The policy file of the model: {"r": {"max_amount": 50}}.
PolicyLimits == [t \in { << 114 >> } |-> 50]

\* ------------------------------------------------------------------ /mint

\* char::is_control for the one-byte characters of the model.
IsControl(c) == c < 32 \/ c = 127

IsActionChar(c) ==
    \/ c \in 48..57 \/ c \in 65..90 \/ c \in 97..122     \* ascii alphanumeric
    \/ c = 95 \/ c = COLON \/ c = 45                      \* '_' ':' '-'

\* validate_request without the tests of sub.
validate_request_SubUnchecked(sub, action) ==
    IF \/ Len(action) = 0
       \/ Len(action) > 64
       \/ ~ \A i \in 1..Len(action) : IsActionChar(action[i])
    THEN "InvalidToken"
    ELSE "Ok"

\* validate_request.  Every failure is Error::InvalidToken.
validate_request(sub, action) ==
    IF Len(sub) = 0 \/ Len(sub) > 256 THEN "InvalidToken"
    ELSE IF \E i \in 1..Len(sub) : IsControl(sub[i]) THEN "InvalidToken"
    ELSE IF \/ Len(action) = 0
            \/ Len(action) > 64
            \/ ~ \A i \in 1..Len(action) : IsActionChar(action[i])
         THEN "InvalidToken"
    ELSE "Ok"

\* clamp_ttl without the lower bound.
clamp_ttl_NoLowerBound(ttl) == IF ttl > TTL_MAX THEN TTL_MAX ELSE ttl

\* clamp_ttl.
clamp_ttl(ttl) == IF ttl < TTL_MIN THEN TTL_MIN ELSE IF ttl > TTL_MAX THEN TTL_MAX ELSE ttl

\* An id_token is absent ("none") or an assertion of which the model keeps
\* whether OidcVerifier::verify accepts it and the identity it carries (its
\* email, or its sub when it has no email).
NoIdToken == [present |-> FALSE, verifies |-> FALSE, identity |-> << >>]

Bump(m, counter) == [m EXCEPT ![counter] = @ + 1]

\* The /mint handler accepting a verified id_token of any identity.
Mint_NoSubMatch(sub, action, ttl_seconds, id_token) ==
    /\ mint_count < MaxMint
    /\ mint_count' = mint_count + 1
    /\ LET req    == [sub |-> sub, action |-> action, ttl_seconds |-> ttl_seconds,
                      id_token |-> id_token]
           ttl    == clamp_ttl(ttl_seconds)
           claims == ClaimsNew(Len(minted) + 1, sub, action, ttl, now)
           pol    == PolicyCheck(PolicyLimits, action)
       IN  IF validate_request(sub, action) # "Ok" THEN
               /\ last_mint' = [req |-> req, res |-> validate_request(sub, action)]
               /\ UNCHANGED <<metrics, minted>>
           ELSE IF oidc /\ id_token.present /\ ~id_token.verifies THEN
               /\ last_mint' = [req |-> req, res |-> "Unauthorized"]
               /\ metrics' = Bump(metrics, "oidc_failures")
               /\ UNCHANGED minted
           ELSE IF oidc /\ ~id_token.present /\ require_oidc THEN
               /\ last_mint' = [req |-> req, res |-> "Unauthorized"]
               /\ metrics' = Bump(metrics, "oidc_failures")
               /\ UNCHANGED minted
           ELSE IF ~pol.ok THEN
               /\ last_mint' = [req |-> req, res |-> "PolicyViolation"]
               /\ metrics' = Bump(metrics, "policy_denials")
               /\ UNCHANGED minted
           ELSE
               /\ last_mint' = [req |-> req, res |-> "Ok"]
               /\ metrics' = Bump(metrics, "tokens_minted")
               /\ minted' = Append(minted,
                      [claims |-> claims, token |-> sign_token(claims, signing_key)])
    /\ UNCHANGED <<now, entries, jlog, cfg_vars, request_count, audit, reqs, tok_vars,
                   ext_vars>>

\* The /mint handler never requiring an id_token.
Mint_MissingAllowed(sub, action, ttl_seconds, id_token) ==
    /\ mint_count < MaxMint
    /\ mint_count' = mint_count + 1
    /\ LET req    == [sub |-> sub, action |-> action, ttl_seconds |-> ttl_seconds,
                      id_token |-> id_token]
           ttl    == clamp_ttl(ttl_seconds)
           claims == ClaimsNew(Len(minted) + 1, sub, action, ttl, now)
           pol    == PolicyCheck(PolicyLimits, action)
       IN  IF validate_request(sub, action) # "Ok" THEN
               /\ last_mint' = [req |-> req, res |-> validate_request(sub, action)]
               /\ UNCHANGED <<metrics, minted>>
           ELSE IF oidc /\ id_token.present /\ ~id_token.verifies THEN
               /\ last_mint' = [req |-> req, res |-> "Unauthorized"]
               /\ metrics' = Bump(metrics, "oidc_failures")
               /\ UNCHANGED minted
           ELSE IF oidc /\ id_token.present /\ id_token.identity # sub THEN
               /\ last_mint' = [req |-> req, res |-> "Unauthorized"]
               /\ metrics' = Bump(metrics, "oidc_failures")
               /\ UNCHANGED minted
           ELSE IF ~pol.ok THEN
               /\ last_mint' = [req |-> req, res |-> "PolicyViolation"]
               /\ metrics' = Bump(metrics, "policy_denials")
               /\ UNCHANGED minted
           ELSE
               /\ last_mint' = [req |-> req, res |-> "Ok"]
               /\ metrics' = Bump(metrics, "tokens_minted")
               /\ minted' = Append(minted,
                      [claims |-> claims, token |-> sign_token(claims, signing_key)])
    /\ UNCHANGED <<now, entries, jlog, cfg_vars, request_count, audit, reqs, tok_vars,
                   ext_vars>>

\* The /mint handler.  It holds no lock and shares only the atomic counters.
Mint(sub, action, ttl_seconds, id_token) ==
    /\ mint_count < MaxMint
    /\ mint_count' = mint_count + 1
    /\ LET req    == [sub |-> sub, action |-> action, ttl_seconds |-> ttl_seconds,
                      id_token |-> id_token]
           ttl    == clamp_ttl(ttl_seconds)
           claims == ClaimsNew(Len(minted) + 1, sub, action, ttl, now)
           pol    == PolicyCheck(PolicyLimits, action)
       IN  IF validate_request(sub, action) # "Ok" THEN
               /\ last_mint' = [req |-> req, res |-> validate_request(sub, action)]
               /\ UNCHANGED <<metrics, minted>>
           ELSE IF oidc /\ id_token.present /\ ~id_token.verifies THEN
               /\ last_mint' = [req |-> req, res |-> "Unauthorized"]
               /\ metrics' = Bump(metrics, "oidc_failures")
               /\ UNCHANGED minted
           ELSE IF oidc /\ id_token.present /\ id_token.identity # sub THEN
               /\ last_mint' = [req |-> req, res |-> "Unauthorized"]
               /\ metrics' = Bump(metrics, "oidc_failures")
               /\ UNCHANGED minted
           ELSE IF oidc /\ ~id_token.present /\ require_oidc THEN
               /\ last_mint' = [req |-> req, res |-> "Unauthorized"]
               /\ metrics' = Bump(metrics, "oidc_failures")
               /\ UNCHANGED minted
           ELSE IF ~pol.ok THEN
               /\ last_mint' = [req |-> req, res |-> "PolicyViolation"]
               /\ metrics' = Bump(metrics, "policy_denials")
               /\ UNCHANGED minted
           ELSE
               /\ last_mint' = [req |-> req, res |-> "Ok"]
               /\ metrics' = Bump(metrics, "tokens_minted")
               /\ minted' = Append(minted,
                      [claims |-> claims, token |-> sign_token(claims, signing_key)])
    /\ UNCHANGED <<now, entries, jlog, cfg_vars, request_count, audit, reqs, tok_vars,
                   ext_vars>>

\* -------------------------------------------------------------- AuditLog

\* AuditLog::log: INSERT INTO audit_log; jti is the PRIMARY KEY, so a row
\* with a jti the table holds fails (rusqlite::Error) and changes nothing.
\* sub and action are cut to MAX_SUB_LEN and MAX_ACTION_LEN characters.
MAX_SUB_LEN == 256
MAX_ACTION_LEN == 64

truncate(value, max) == IF Len(value) > max THEN SubSeq(value, 1, max) ELSE value

\* The positions of the rows with a jti.
RowsOf(rows, jti) == {i \in 1..Len(rows) : rows[i].jti = jti}

\* AuditLog::log with INSERT OR REPLACE: the row of the jti is replaced.
AuditLog_log_OrReplace(rows, jti, sub, action, verified_at) ==
    [ok |-> TRUE,
     rows |-> Append(SelectSeq(rows, LAMBDA row : row.jti # jti),
                     [jti |-> jti, sub |-> truncate(sub, MAX_SUB_LEN),
                      action |-> truncate(action, MAX_ACTION_LEN),
                      verified_at |-> verified_at])]

\* AuditLog::log on a table whose jti column is no key.
AuditLog_log_NoPrimaryKey(rows, jti, sub, action, verified_at) ==
    [ok |-> TRUE,
     rows |-> Append(rows, [jti |-> jti, sub |-> truncate(sub, MAX_SUB_LEN),
                            action |-> truncate(action, MAX_ACTION_LEN),
                            verified_at |-> verified_at])]

AuditLog_log(rows, jti, sub, action, verified_at) ==
    IF \E i \in 1..Len(rows) : rows[i].jti = jti
    THEN [ok |-> FALSE, rows |-> rows]
    ELSE [ok |-> TRUE,
          rows |-> Append(rows, [jti |-> jti, sub |-> truncate(sub, MAX_SUB_LEN),
                                 action |-> truncate(action, MAX_ACTION_LEN),
                                 verified_at |-> verified_at])]

\* AuditLog::recent in the order of the rowids (ORDER BY rowid).
recent_Ascending(rows, limit) ==
    [i \in 1..(IF limit < Len(rows) THEN limit ELSE Len(rows)) |-> rows[i]]

\* AuditLog::recent: SELECT ... ORDER BY rowid DESC LIMIT ?1, the last
\* `limit` rows of the table, the one with the greatest rowid first.
recent(rows, limit) ==
    [i \in 1..(IF limit < Len(rows) THEN limit ELSE Len(rows)) |->
        rows[Len(rows) - i + 1]]

\* ----------------------------------------------------------------- /proxy

ReqIds == 1..MaxReq

IdleReq ==
    [pc |-> "idle", tok |-> 0, claims |-> NoClaims, res |-> "none", boot |-> 0,
     after_failure |-> FALSE]

\* A request for the k-th minted token has ended with Error::Database.
FailedWrite(k) ==
    \E q \in ReqIds :
        reqs[q].pc = "done" /\ reqs[q].res = "Database" /\ reqs[q].tok = k

Done(r, kind) == [reqs EXCEPT ![r].pc = "done", ![r].res = kind]

\* A request arrives with the k-th minted token (requests are numbered in
\* the order they arrive, and each is marked with the start of the process
\* that handles it and with whether it arrives after a request for its
\* token ended with Error::Database): increment_requests, then
\* verify_token; on failure record_rejection and the error is returned.
ProxyVerify(r, k) ==
    /\ reqs[r].pc = "idle"
    /\ \A q \in 1..(r - 1) : reqs[q].pc # "idle"
    /\ k \in 1..Len(minted)
    /\ request_count' = request_count + 1
    /\ LET v == verify_token(minted[k].token, verifying_key(signing_key), now)
       IN  IF v.ok
           THEN /\ reqs' = [reqs EXCEPT ![r] = [pc |-> "verified", tok |-> k,
                                                claims |-> v.claims, res |-> "none",
                                                boot |-> boots,
                                                after_failure |-> FailedWrite(k)]]
                /\ UNCHANGED metrics
           ELSE /\ reqs' = [reqs EXCEPT ![r] = [pc |-> "done", tok |-> k,
                                                claims |-> NoClaims, res |-> v.err,
                                                boot |-> boots,
                                                after_failure |-> FailedWrite(k)]]
                /\ metrics' = Bump(metrics, "tokens_rejected")
    /\ UNCHANGED <<now, entries, jlog, cfg_vars, audit, minted, last_mint,
                   mint_count, tok_vars, ext_vars>>

\* check_and_insert with the claims' exp.timestamp(); on any error
\* record_replay and the error is returned.
ProxyJti(r) ==
    /\ reqs[r].pc = "verified"
    /\ LET c == check_and_insert(entries, reqs[r].claims.jti,
                                 timestamp(reqs[r].claims.exp), now)
       IN  /\ entries' = c.entries
           /\ IF c.res = "Ok"
              THEN /\ reqs' = [reqs EXCEPT ![r].pc = "inserted"]
                   /\ UNCHANGED metrics
              ELSE /\ reqs' = Done(r, c.res)
                   /\ metrics' = Bump(metrics, "replays_blocked")
    /\ UNCHANGED <<now, jlog, cfg_vars, request_count, audit, minted, last_mint,
                   mint_count, tok_vars, ext_vars>>

\* The end of proxy with the result of audit_log.log dropped.
ProxyAudit_IgnoresFailure(r) ==
    /\ reqs[r].pc = "inserted"
    /\ audit' = AuditLog_log(audit, reqs[r].claims.jti, reqs[r].claims.sub,
                             reqs[r].claims.action, now).rows
    /\ reqs' = Done(r, "Ok")
    /\ metrics' = Bump(metrics, "tokens_verified")
    /\ UNCHANGED <<now, entries, jlog, cfg_vars, request_count, minted, last_mint,
                   mint_count, tok_vars, ext_vars>>

\* audit_log.log(...)?; then record_verify and the 200 response.
ProxyAudit(r) ==
    /\ reqs[r].pc = "inserted"
    /\ LET a == AuditLog_log(audit, reqs[r].claims.jti, reqs[r].claims.sub,
                             reqs[r].claims.action, now)
       IN  /\ audit' = a.rows
           /\ IF a.ok
              THEN /\ reqs' = Done(r, "Ok")
                   /\ metrics' = Bump(metrics, "tokens_verified")
              ELSE /\ reqs' = Done(r, "Database")
                   /\ UNCHANGED metrics
    /\ UNCHANGED <<now, entries, jlog, cfg_vars, request_count, minted, last_mint,
                   mint_count, tok_vars, ext_vars>>

\* audit_log.log(...)? where conn.execute fails for a reason other than the
\* primary key (the database file cannot be written): no row is written,
\* the error goes out as Error::Database and nothing else is done.
ProxyAuditFails(r) ==
    /\ reqs[r].pc = "inserted"
    /\ reqs' = Done(r, "Database")
    /\ UNCHANGED <<now, entries, jlog, cfg_vars, request_count, metrics, audit,
                   minted, last_mint, mint_count, tok_vars, ext_vars>>

\* ----------------------------------------------------------- RateLimiter

\* Durations in ticks of the clock.
Secs(n) == n * TicksPerSec

\* WindowCounter::new at instant t.
WindowCounterNew(t) == [count |-> 0, window_start |-> t]

\* WindowCounter::increment accepting limit + 1 calls per window.
increment_OffByOne(c, limit, window, t) ==
    LET c1 == IF t - c.window_start > window THEN WindowCounterNew(t) ELSE c
        c2 == [c1 EXCEPT !.count = @ + 1]
    IN  [counter |-> c2, ok |-> c2.count <= limit + 1]

\* WindowCounter::increment where a rejected call starts the window again.
increment_RejectionRestartsWindow(c, limit, window, t) ==
    LET c1 == IF t - c.window_start > window THEN WindowCounterNew(t) ELSE c
        c2 == [c1 EXCEPT !.count = @ + 1]
    IN  [counter |-> IF c2.count <= limit THEN c2 ELSE [c2 EXCEPT !.window_start = t],
         ok |-> c2.count <= limit]

\* WindowCounter::increment at instant t: the counter after the call and the
\* value returned.
increment(c, limit, window, t) ==
    LET c1 == IF t - c.window_start > window THEN WindowCounterNew(t) ELSE c
        c2 == [c1 EXCEPT !.count = @ + 1]
    IN  [counter |-> c2, ok |-> c2.count <= limit]

\* RateLimiter::new at instant t.
RateLimiterNew(t) ==
    [ip_counts |-> EmptyMap, user_counts |-> EmptyMap,
     global_count |-> WindowCounterNew(t), last_cleanup |-> t]

\* HashMap::retain(|_, c| c.window_start > cutoff).
RetainAfter(m, cutoff) ==
    [k \in {x \in DOMAIN m : m[x].window_start > cutoff} |-> m[k]]

\* maybe_cleanup run at every call and removing every per-key counter.
maybe_cleanup_EvictsLive(st, t) ==
    [st EXCEPT !.ip_counts = EmptyMap, !.user_counts = EmptyMap,
               !.last_cleanup = t]

\* maybe_cleanup.
maybe_cleanup(st, t) ==
    IF t - st.last_cleanup > Secs(CLEANUP_INTERVAL)
    THEN LET cutoff == t - Secs(WINDOW) - Secs(CLEANUP_SLACK)
         IN  [st EXCEPT !.ip_counts = RetainAfter(@, cutoff),
                        !.user_counts = RetainAfter(@, cutoff),
                        !.last_cleanup = t]
    ELSE st

\* entry(key).or_insert_with(WindowCounter::new).
EntryOrNew(m, key, t) == IF key \in DOMAIN m THEN m[key] ELSE WindowCounterNew(t)

\* check_ip at instant t: the result and the RateLimitState after the call.
check_ip(st, ip, t) ==
    LET st1 == maybe_cleanup(st, t)
        g   == increment(st1.global_count, global_per_sec, Secs(GLOBAL_WINDOW), t)
        st2 == [st1 EXCEPT !.global_count = g.counter]
        i   == increment(EntryOrNew(st2.ip_counts, ip, t), per_ip_per_min,
                         Secs(WINDOW), t)
    IN  IF ~g.ok THEN [res |-> "Global", state |-> st2]
        ELSE [res |-> IF i.ok THEN "Ok" ELSE "PerIp",
              state |-> [st2 EXCEPT !.ip_counts = MapInsert(@, ip, i.counter)]]

\* check_ip of a limiter that never evicts a counter: check_ip without its
\* call of maybe_cleanup.
check_ip_NoCleanup(st, ip, t) ==
    LET g   == increment(st.global_count, global_per_sec, Secs(GLOBAL_WINDOW), t)
        st2 == [st EXCEPT !.global_count = g.counter]
        i   == increment(EntryOrNew(st2.ip_counts, ip, t), per_ip_per_min,
                         Secs(WINDOW), t)
    IN  IF ~g.ok THEN [res |-> "Global", state |-> st2]
        ELSE [res |-> IF i.ok THEN "Ok" ELSE "PerIp",
              state |-> [st2 EXCEPT !.ip_counts = MapInsert(@, ip, i.counter)]]

\* check_user that also runs the global tier.
check_user_WithGlobalTier(st, user_id, t) ==
    LET g  == increment(st.global_count, global_per_sec, Secs(GLOBAL_WINDOW), t)
        u  == increment(EntryOrNew(st.user_counts, user_id, t), per_user_per_min,
                        Secs(WINDOW), t)
    IN  [res |-> IF u.ok THEN "Ok" ELSE "PerUser",
         state |-> [st EXCEPT !.global_count = g.counter,
                              !.user_counts = MapInsert(@, user_id, u.counter)]]

\* check_user at instant t.
check_user(st, user_id, t) ==
    LET u == increment(EntryOrNew(st.user_counts, user_id, t), per_user_per_min,
                       Secs(WINDOW), t)
    IN  [res |-> IF u.ok THEN "Ok" ELSE "PerUser",
         state |-> [st EXCEPT !.user_counts = MapInsert(@, user_id, u.counter)]]

\* --------------------------------------------------------- WebAuthnState

\* WebAuthnState::new: the four maps are empty.  A challenge entry is
\* [data, created]: data stands for the ceremony state the library made for
\* this challenge, told apart by a serial number; a credential is the data
\* of the registration it came from.
WebAuthnNew ==
    [failures |-> EmptyMap, reg_challenges |-> EmptyMap,
     auth_challenges |-> EmptyMap, credentials |-> EmptyMap]

\* cleanup_expired at instant t.
cleanup_expired(map, t) ==
    [k \in {x \in DOMAIN map : t - map[x].created < Secs(CHALLENGE_TTL)}
        |-> map[k]]

\* check_capacity admitting one entry more than MAX_CHALLENGES.
check_capacity_OffByOne(map) ==
    IF Cardinality(DOMAIN map) > MAX_CHALLENGES
    THEN "ServiceUnavailable" ELSE "Ok"

\* check_capacity.
check_capacity(map) ==
    IF Cardinality(DOMAIN map) >= MAX_CHALLENGES
    THEN "ServiceUnavailable" ELSE "Ok"

\* The block of register_start and auth_start that holds the write lock of
\* a challenge map: cleanup_expired, check_capacity, insert.
InsertChallenge(map, user_id, data, t) ==
    LET challenges == cleanup_expired(map, t)
    IN  IF check_capacity(challenges) # "Ok"
        THEN [res |-> "ServiceUnavailable", map |-> challenges]
        ELSE [res |-> "Ok",
              map |-> MapInsert(challenges, user_id,
                                [data |-> data, created |-> t])]

\* HashMap::get in place of HashMap::remove: the entry stays in the map.
RemoveChallenge_Get(map, user_id) ==
    IF user_id \in DOMAIN map
    THEN [found |-> TRUE, entry |-> map[user_id], map |-> map]
    ELSE [found |-> FALSE, entry |-> [data |-> 0, created |-> 0], map |-> map]

\* HashMap::remove(user_id) on a challenge map, under its write lock.
RemoveChallenge(map, user_id) ==
    IF user_id \in DOMAIN map
    THEN [found |-> TRUE, entry |-> map[user_id],
          map |-> [k \in DOMAIN map \ {user_id} |-> map[k]]]
    ELSE [found |-> FALSE, entry |-> [data |-> 0, created |-> 0], map |-> map]

\* The TTL test of register_finish and auth_finish at instant t.
ChallengeExpired(entry, t) == t - entry.created > Secs(CHALLENGE_TTL)

\* is_locked_out with the threshold never reached by exactly 5 failures.
is_locked_out_AboveThreshold(failures, user_id, t) ==
    /\ user_id \in DOMAIN failures
    /\ failures[user_id].count > LOCKOUT_THRESHOLD
    /\ t - failures[user_id].last_failure < Secs(LOCKOUT_DURATION)

\* is_locked_out at instant t.
is_locked_out(failures, user_id, t) ==
    /\ user_id \in DOMAIN failures
    /\ failures[user_id].count >= LOCKOUT_THRESHOLD
    /\ t - failures[user_id].last_failure < Secs(LOCKOUT_DURATION)

\* record_failure at instant t.
record_failure(failures, user_id, t) ==
    LET record == IF user_id \in DOMAIN failures THEN failures[user_id]
                  ELSE [count |-> 0, last_failure |-> t]
    IN  MapInsert(failures, user_id,
                  [count |-> record.count + 1, last_failure |-> t])

\* clear_failures that leaves the record where it is.
clear_failures_Keeps(failures, user_id) == failures

\* clear_failures.
clear_failures(failures, user_id) ==
    [k \in DOMAIN failures \ {user_id} |-> failures[k]]

\* ------------------------------------------------------------ the service

\* Metrics::new.
MetricsNew ==
    [tokens_minted |-> 0, tokens_verified |-> 0, tokens_rejected |-> 0,
     replays_blocked |-> 0, policy_denials |-> 0, oidc_failures |-> 0,
     rate_limited |-> 0, webauthn_registers |-> 0, webauthn_successes |-> 0,
     webauthn_failures |-> 0, webauthn_lockouts |-> 0]

NoMint == [req |-> [sub |-> << >>, action |-> << >>, ttl_seconds |-> 0,
                     id_token |-> NoIdToken],
           res |-> "none"]

\* verify_token on its own is not in use.
TokIdle ==
    /\ vt_in = [shape |-> "none"]
    /\ vt_out = [ok |-> FALSE, err |-> "idle"]

\* PolicyEngine::check on its own is not in use.
FnIdle ==
    /\ pol_in = [shape |-> "none"]
    /\ pol_out = [done |-> FALSE]

\* No call made yet: no user has failed.
NoWaCall ==
    [calls |-> 0, op |-> "none", user |-> 0,
     fails |-> [u \in 1..NumUser |-> 0],
     last |-> [u \in 1..NumUser |-> 0]]

\* AuditLog on its own is not in use.
NoAuditCall ==
    [calls |-> 0, op |-> "none", jti |-> 0, limit |-> 0, res |-> "none",
     out |-> << >>, logged |-> << >>]

\* No handler has returned an error.
NoError == [kind |-> "none", detail |-> ""]
NoResponse == [done |-> FALSE, status |-> 0, body |-> ""]

\* The threads that run the handlers; a thread that runs none.
Threads == 1..NumThreads
IdleThread == [handler |-> "idle", pc |-> 0]

LibIdle ==
    /\ alog = NoAuditCall
    /\ lreq = [t \in Threads |-> IdleThread]
    /\ boots = 1
    /\ rl_ref = RateLimiterNew(0)
    /\ mreq = << >>
    /\ err_in = NoError
    /\ err_out = NoResponse

\* The users of the WebAuthn endpoints: one more than a challenge map
\* holds, and the request slots: the requests that run at the same time.
WaUsers == 1..(MAX_CHALLENGES + 1)
Slots == 1..NumSlot

NoEntry == [data |-> 0, created |-> 0]

\* The endpoints, and how many requests each of them is sent.
WaOps == {"register_start", "register_finish", "auth_start", "auth_finish"}
MaxWaReq ==
    [op \in WaOps |-> CASE op = "register_start" -> MaxRegStart
                        [] op = "register_finish" -> MaxRegFinish
                        [] op = "auth_start" -> MaxAuthStart
                        [] op = "auth_finish" -> MaxAuthFinish]

\* A slot with no request in it.
IdleSlot == [op |-> "idle", pc |-> "idle", user |-> 0, entry |-> NoEntry]

NoWaAnswer ==
    [op |-> "none", user |-> 0, res |-> "none", why |-> "none"]

\* No WebAuthn request made yet.
NoWaHist ==
    [calls |-> [op \in WaOps |-> 0], overlaps |-> 0, passes |-> 0, issued |-> 0,
     last |-> NoWaAnswer,
     fails |-> [u \in WaUsers |-> << >>]]

\* No WebAuthn request in flight, none made.
WaIdle ==
    /\ wreq = [s \in Slots |-> IdleSlot]
    /\ whist = NoWaHist

\* RateLimiter::new and WebAuthnState::new at instant 0, no call made.
ExtIdle ==
    /\ rl = RateLimiterNew(0)
    /\ rlog = << >>
    /\ wa = WebAuthnNew
    /\ wlog = NoWaCall
    /\ WaIdle
    /\ FnIdle
    /\ LibIdle

\* StateBuilder::build, before any request.
SvcIdle ==
    /\ ExtIdle
    /\ signing_key = 1
    /\ oidc = FALSE
    /\ require_oidc = FALSE
    /\ request_count = 0
    /\ metrics = MetricsNew
    /\ audit = << >>
    /\ minted = << >>
    /\ last_mint = NoMint
    /\ mint_count = 0
    /\ reqs = [r \in ReqIds |-> IdleReq]

\* The inputs /mint is given in the model.
Subs == { << 97 >>, << >> }
Actions == { << 100 >>, << 114, 58, 97, 109, 111, 117, 110, 116, 58, 55, 53 >> }
Ttls == { 0 - 5, 0, 1, 60, 300, 301, 500 }
RedeemTtls == { 0, 500 }
IdTokens ==
    { NoIdToken,
      [present |-> TRUE, verifies |-> TRUE, identity |-> << 97 >>],
      [present |-> TRUE, verifies |-> TRUE, identity |-> << 98 >>],
      [present |-> TRUE, verifies |-> FALSE, identity |-> << >>] }

\* The service as build_state leaves it when no identity provider is
\* configured; clients mint tokens for sub "a", action "d" and redeem them.
Init ==
    /\ now = 0
    /\ entries = EmptyMap
    /\ jlog = << >>
    /\ SvcIdle
    /\ TokIdle

Next ==
    \/ Tick
    \/ \E ttl \in RedeemTtls : Mint(<< 97 >>, << 100 >>, ttl, NoIdToken)
    \/ \E r \in ReqIds, k \in 1..MaxMint : ProxyVerify(r, k)
    \/ \E r \in ReqIds : ProxyJti(r)
    \/ \E r \in ReqIds : ProxyAudit(r)

Spec == Init /\ [][Next]_vars

\* ------------------------------------------- the database failing a write

WriteFailNext ==
    \/ Next
    \/ \E r \in ReqIds : ProxyAuditFails(r)

\* The service of Spec with an audit table whose INSERT may fail.
SpecWriteFail == Init /\ [][WriteFailNext]_vars

\* --------------------------------------------------------------- restart

\* The process is started again with its key read back from where it was
\* kept and its audit table in memory.
Restart_KeyKeptTableInMemory ==
    /\ boots < MaxBoots
    /\ boots' = boots + 1
    /\ entries' = EmptyMap
    /\ audit' = << >>
    /\ request_count' = 0
    /\ metrics' = MetricsNew
    /\ rl' = RateLimiterNew(now)
    /\ wa' = WebAuthnNew
    /\ reqs' = [r \in ReqIds |->
                  IF reqs[r].pc \in {"verified", "inserted"}
                  THEN [reqs[r] EXCEPT !.pc = "done", !.res = "aborted"]
                  ELSE reqs[r]]
    /\ UNCHANGED <<now, jlog, cfg_vars, minted, last_mint, mint_count,
                   rlog, wlog, wh_vars, fn_vars, aud_vars, err_vars, lock_vars,
                   rl_ref, mreq, tok_vars>>

\* The process ends and is started again: build_state.  The key pair is
\* generated anew, the replay store, the counters, the rate limiter and
\* the WebAuthn maps are new, the audit table is the one of the database
\* file; the requests in flight get no answer.
Restart ==
    /\ boots < MaxBoots
    /\ boots' = boots + 1
    /\ signing_key' = signing_key + 1
    /\ entries' = EmptyMap
    /\ request_count' = 0
    /\ metrics' = MetricsNew
    /\ rl' = RateLimiterNew(now)
    /\ wa' = WebAuthnNew
    /\ reqs' = [r \in ReqIds |->
                  IF reqs[r].pc \in {"verified", "inserted"}
                  THEN [reqs[r] EXCEPT !.pc = "done", !.res = "aborted"]
                  ELSE reqs[r]]
    /\ UNCHANGED <<now, jlog, oidc, require_oidc, audit, minted, last_mint,
                   mint_count, rlog, wlog, wh_vars, fn_vars, aud_vars, err_vars,
                   lock_vars, rl_ref, mreq, tok_vars>>

RestartNext ==
    \/ Next
    \/ Restart

\* The service of Spec, restarted up to MaxBoots - 1 times.
SpecRestart == Init /\ [][RestartNext]_vars

\* ------------------------------------------------- the mint pipeline alone

\* Every configuration of the identity check, every input of the model.
MintInit ==
    /\ now = 0
    /\ entries = EmptyMap
    /\ jlog = << >>
    /\ signing_key = 1
    /\ oidc \in BOOLEAN
    /\ require_oidc \in BOOLEAN
    /\ request_count = 0
    /\ metrics = MetricsNew
    /\ audit = << >>
    /\ minted = << >>
    /\ last_mint = NoMint
    /\ mint_count = 0
    /\ reqs = [r \in ReqIds |-> IdleReq]
    /\ ExtIdle
    /\ TokIdle

MintNext ==
    \/ Tick
    \/ \E sub \in Subs, action \in Actions, ttl \in Ttls, idt \in IdTokens :
          Mint(sub, action, ttl, idt)

SpecMint == MintInit /\ [][MintNext]_vars

\* ------------------------------------------- /mint requests in parallel

\* Metrics::record_policy_denial adding to tokens_rejected.
record_policy_denial_AsRejection(m) == Bump(m, "tokens_rejected")

\* Metrics::record_mint, record_policy_denial, record_oidc_failure: one
\* fetch_add each.
record_mint(m) == Bump(m, "tokens_minted")
record_policy_denial(m) == Bump(m, "policy_denials")
record_oidc_failure(m) == Bump(m, "oidc_failures")

\* The i-th request is at pc, or has ended with res.
MintAt(i, pc) == i \in 1..Len(mreq) /\ mreq[i].pc = pc
MintTo(i, pc) == [mreq EXCEPT ![i].pc = pc]
MintEnds(i, res) == [mreq EXCEPT ![i].pc = "done", ![i].res = res]

\* What a step of /mint leaves alone: all but the counters, the tokens
\* given out and the requests in flight.
MintLeaves ==
    UNCHANGED <<now, entries, jlog, cfg_vars, request_count, audit, last_mint,
                mint_count, reqs, rl, rlog, wa, wlog, wh_vars, fn_vars,
                aud_vars, err_vars, lock_vars, boots, rl_ref, tok_vars>>

\* A request arrives: validate_request.
MintArrive(sub, action, id_token) ==
    /\ Len(mreq) < MaxMintReq
    /\ LET ok == validate_request(sub, action) = "Ok"
       IN  mreq' = Append(mreq,
                     [sub |-> sub, action |-> action, id_token |-> id_token,
                      pc |-> IF ok THEN "oidc" ELSE "done",
                      res |-> IF ok THEN "none" ELSE validate_request(sub, action)])
    /\ UNCHANGED <<metrics, minted>>
    /\ MintLeaves

\* The OIDC block, after oidc.verify(token).await has returned.
MintOidc(i) ==
    /\ MintAt(i, "oidc")
    /\ LET r == mreq[i]
           fails == /\ oidc
                    /\ \/ r.id_token.present /\ ~ r.id_token.verifies
                       \/ r.id_token.present /\ r.id_token.identity # r.sub
                       \/ ~ r.id_token.present /\ require_oidc
       IN  IF fails
           THEN /\ mreq' = MintEnds(i, "Unauthorized")
                /\ metrics' = record_oidc_failure(metrics)
           ELSE /\ mreq' = MintTo(i, "policy")
                /\ UNCHANGED metrics
    /\ UNCHANGED minted
    /\ MintLeaves

\* policy.check; a Violation is counted and returned.
MintPolicy(i) ==
    /\ MintAt(i, "policy")
    /\ IF ~ PolicyCheck(PolicyLimits, mreq[i].action).ok
       THEN /\ mreq' = MintEnds(i, "PolicyViolation")
            /\ metrics' = record_policy_denial(metrics)
       ELSE /\ mreq' = MintTo(i, "sign")
            /\ UNCHANGED metrics
    /\ UNCHANGED minted
    /\ MintLeaves

\* Claims::new, sign_token, record_mint and the response with the token.
MintSign(i) ==
    /\ MintAt(i, "sign")
    /\ LET claims == ClaimsNew(Len(minted) + 1, mreq[i].sub, mreq[i].action,
                               clamp_ttl(60), now)
       IN  minted' = Append(minted,
                       [claims |-> claims, token |-> sign_token(claims, signing_key)])
    /\ metrics' = record_mint(metrics)
    /\ mreq' = MintEnds(i, "Ok")
    /\ MintLeaves

\* The requests of the parallel runs: each of them fails one step of the
\* handler, or none.
RaceIdTokens ==
    { NoIdToken, [present |-> TRUE, verifies |-> FALSE, identity |-> << >>] }

MintRaceNext ==
    \/ \E sub \in Subs, action \in Actions, idt \in RaceIdTokens :
          MintArrive(sub, action, idt)
    \/ \E i \in 1..MaxMintReq : MintOidc(i)
    \/ \E i \in 1..MaxMintReq : MintPolicy(i)
    \/ \E i \in 1..MaxMintReq : MintSign(i)

\* Up to MaxMintReq /mint requests, their steps interleaved.
SpecMintRace == MintInit /\ [][MintRaceNext]_vars

\* ------------------------------------------------ verify_token on its own

\* The key pairs of the model; the service verifies with key 1.
Keys == {1, 2}

\* Claims as Claims::new builds them: payloads of every length modulo 3,
\* expiries on both sides of one byte, and the TTL 0 of the tests.
VClaims ==
    { ClaimsNew(1, sub, action, ttl, iat) :
        sub \in { << 97 >>, << 97, 98 >> },
        action \in { << 100 >>, << 100, 101 >> },
        ttl \in { 0, TTL_MIN, TTL_MAX },
        iat \in { 0, 1 } }

\* What may be wrong with a token, one name per check of verify_token.
Defects ==
    { "oversize", "nodot", "badchar_payload", "badchar_sig", "sig_pad",
      "sig_short", "payload_pad", "json_garbage" }

DefectSets == { D \in SUBSET Defects : Cardinality(D) <= 2 }

\* The token of claims c signed with key, with the defects of D built in.  A
\* defect of the payload segment is there before the segment is signed, so
\* that the signature is good for the segment as it stands.
BuildToken(c, key, D) ==
    IF D = {} THEN sign_token(c, key) ELSE
    LET json == IF "json_garbage" \in D THEN << 1, 200 >> ELSE ToJson(c)
        seg  == IF "payload_pad" \in D
                THEN B64Encode(json) \o << PadChar >> ELSE B64Encode(json)
        sig  == Ed25519Sign(key, seg)
        q0   == IF "sig_short" \in D
                THEN B64Encode(SubSeq(sig, 1, SIGNATURE_LENGTH - 1))
                ELSE B64Encode(sig)
        q1   == IF "sig_pad" \in D THEN q0 \o << PadChar >> ELSE q0
        q2   == IF "badchar_sig" \in D THEN q1 \o << BadChar >> ELSE q1
        p1   == IF "badchar_payload" \in D THEN seg \o << BadChar >> ELSE seg
        t0   == IF "nodot" \in D THEN p1 \o q2 ELSE p1 \o << DotChar >> \o q2
    IN  IF "oversize" \in D
        THEN t0 \o [i \in 1..(MAX_TOKEN_BYTES + 1 - Len(t0)) |-> 0]
        ELSE t0

\* verify_token(token, key) is called at the clock's instant.
VerifyCall ==
    /\ vt_in.shape # "none"
    /\ vt_out.err = "idle"
    /\ vt_out' = [at |-> now] @@
                 verify_token(vt_in.token, verifying_key(signing_key), now)
    /\ UNCHANGED <<now, entries, jlog, svc_vars, vt_in>>

VerifyInit ==
    /\ now = 0
    /\ entries = EmptyMap
    /\ jlog = << >>
    /\ SvcIdle
    /\ \E c \in VClaims, key \in Keys, D \in DefectSets :
          vt_in = [shape |-> "built", c |-> c, key |-> key, defects |-> D,
                   token |-> BuildToken(c, key, D)]
    /\ vt_out = [ok |-> FALSE, err |-> "idle"]

VerifyNext == Tick \/ VerifyCall

SpecVerify == VerifyInit /\ [][VerifyNext]_vars

\* ------------------------------------------------------- tampered tokens

AllChars == 0..BadChar

\* One character of a token replaced by another, inserted, or deleted.
Replace(token, pos, ch) == [token EXCEPT ![pos] = ch]
Insert(token, pos, ch) ==
    SubSeq(token, 1, pos - 1) \o << ch >> \o SubSeq(token, pos, Len(token))
Delete(token, pos) ==
    SubSeq(token, 1, pos - 1) \o SubSeq(token, pos + 1, Len(token))

\* A valid token of the service, five minutes from expiry.
TamperClaims == { ClaimsNew(1, << 97 >>, << 100 >>, TTL_MAX, 0) }

TamperInit ==
    /\ now = 0
    /\ entries = EmptyMap
    /\ jlog = << >>
    /\ SvcIdle
    /\ \E c \in TamperClaims :
          LET valid == sign_token(c, signing_key)
          IN  \/ \E pos \in 1..Len(valid) : \E ch \in AllChars \ {valid[pos]} :
                    vt_in = [shape |-> "tampered", c |-> c, how |-> "replace",
                             pos |-> pos, token |-> Replace(valid, pos, ch)]
              \/ \E pos \in 1..(Len(valid) + 1), ch \in AllChars :
                    vt_in = [shape |-> "tampered", c |-> c, how |-> "insert",
                             pos |-> pos, token |-> Insert(valid, pos, ch)]
              \/ \E pos \in 1..Len(valid) :
                    vt_in = [shape |-> "tampered", c |-> c, how |-> "delete",
                             pos |-> pos, token |-> Delete(valid, pos)]
    /\ vt_out = [ok |-> FALSE, err |-> "idle"]

TamperNext == VerifyCall

SpecTamper == TamperInit /\ [][TamperNext]_vars

\* ----------------------------------------- the replay store on its own

\* Any thread calls check_and_insert(jti, exp) at any time; the mutex makes
\* the calls of concurrent threads take effect one after the other.
JtiCall(jti, exp) ==
    /\ Len(jlog) < MaxCalls
    /\ LET r == check_and_insert(entries, jti, exp, now)
       IN  /\ entries' = r.entries
           /\ jlog' = Append(jlog, [jti |-> jti, exp |-> exp, at |-> timestamp(now),
                                     res |-> r.res, before |-> entries,
                                     after |-> r.entries])
    /\ UNCHANGED <<now, svc_vars, tok_vars>>

JtiInit ==
    /\ now = 0
    /\ entries = EmptyMap
    /\ jlog = << >>
    /\ SvcIdle
    /\ TokIdle

JtiNext ==
    \/ Tick
    \/ \E jti \in Jtis, exp \in ExpSecs : JtiCall(jti, exp)

SpecJti == JtiInit /\ [][JtiNext]_vars

\* -------------------------------------- PolicyEngine::check on its own

\* u64::to_string: the decimal numeral of n.
RECURSIVE ToDecimal(_)
ToDecimal(n) ==
    IF n < 10 THEN << 48 + n >>
    ELSE ToDecimal(n \div 10) \o << 48 + (n % 10) >>

\* Action types: "r", "d", "x" and "amount".
PolicyTypes == { << 114 >>, << 100 >>, << 120 >>, AMOUNT }

\* The policy sets: a limit of 0 or 50, or none, for each of "r", "d" and
\* "amount".
PolicySets ==
    UNION { [T -> {0, 50}] : T \in SUBSET { << 114 >>, << 100 >>, AMOUNT } }

PolicyAmounts == { 0, 49, 50, 51, 9999 }

PolicyShapes ==
    { "bare", "amount", "amount_mid", "amount_late", "other", "no_value",
      "not_number", "too_big", "zeros", "two_amounts", "bad_then_amount" }

\* "18446744073709551616", the numeral of 2^64.
TOO_BIG == SubSeq(U64_MAX, 1, Len(U64_MAX) - 1) \o << 54 >>

\* Twenty zeros.
ZEROS == [i \in 1..20 |-> 48]

\* "order" and "abc"
ORDER == << 111, 114, 100, 101, 114 >>
ABC == << 97, 98, 99 >>

\* The action string of a type, a shape and an amount.
BuildAction(type, shape, a) ==
    LET c == << COLON >>
        n == ToDecimal(a)
    IN  CASE shape = "bare"        -> type
          [] shape = "amount"      -> type \o c \o AMOUNT \o c \o n
          [] shape = "amount_mid"  -> type \o c \o AMOUNT \o c \o n \o c \o ORDER \o c \o << 49 >>
          [] shape = "amount_late" -> type \o c \o ORDER \o c \o << 49 >> \o c \o AMOUNT \o c \o n
          [] shape = "other"       -> type \o c \o ORDER \o c \o n
          [] shape = "no_value"    -> type \o c \o AMOUNT
          [] shape = "not_number"  -> type \o c \o AMOUNT \o c \o ABC
          [] shape = "too_big"     -> type \o c \o AMOUNT \o c \o TOO_BIG
          [] shape = "zeros"       -> type \o c \o AMOUNT \o c \o ZEROS \o n
          [] shape = "two_amounts" -> type \o c \o AMOUNT \o c \o n
                                           \o c \o AMOUNT \o c \o ToDecimal(9999)
          [] shape = "bad_then_amount" ->
                 type \o c \o AMOUNT \o c \o ABC \o c \o AMOUNT \o c \o n

\* engine.check(action).
PolicyCall ==
    /\ pol_in.shape # "none"
    /\ ~pol_out.done
    /\ pol_out' = [done |-> TRUE, res |-> PolicyCheck(pol_in.limits, pol_in.action)]
    /\ UNCHANGED <<now, entries, jlog, cfg_vars, request_count, metrics, audit, minted,
                   last_mint, mint_count, reqs, rl, rlog, wa, wlog, wh_vars,
                   lib_vars, pol_in, tok_vars>>

PolicyInit ==
    /\ now = 0
    /\ entries = EmptyMap
    /\ jlog = << >>
    /\ signing_key = 1
    /\ oidc = FALSE
    /\ require_oidc = FALSE
    /\ request_count = 0
    /\ metrics = MetricsNew
    /\ audit = << >>
    /\ minted = << >>
    /\ last_mint = NoMint
    /\ mint_count = 0
    /\ reqs = [r \in ReqIds |-> IdleReq]
    /\ rl = RateLimiterNew(0)
    /\ rlog = << >>
    /\ wa = WebAuthnNew
    /\ wlog = NoWaCall
    /\ WaIdle
    /\ LibIdle
    /\ TokIdle
    /\ \E limits \in PolicySets, type \in PolicyTypes, shape \in PolicyShapes,
          a \in PolicyAmounts :
          pol_in = [shape |-> shape, type |-> type, a |-> a, limits |-> limits,
                    action |-> BuildAction(type, shape, a)]
    /\ pol_out = [done |-> FALSE]

PolicyNext == PolicyCall

SpecPolicy == PolicyInit /\ [][PolicyNext]_vars

\* ---------------------------------------- the rate limiter on its own

Ips == 1..NumIp
Users == 1..NumUser

\* The time between one call and the next: none, one tick, the global
\* window, the per-key window, and just over the cleanup interval.
RateDelays ==
    { 0, 1, Secs(GLOBAL_WINDOW), Secs(WINDOW), Secs(CLEANUP_INTERVAL) + 1 }

\* check_ip(ip), d after the previous call.  The log keeps the result and
\* the window_start of the counters the call incremented (gstart: global,
\* kstart: the key's).  rl_ref is a limiter that never evicts, given the
\* same calls at the same instants.
CheckIpCall(ip, d) ==
    /\ Len(rlog) < MaxRateCalls
    /\ now' = now + d
    /\ LET r == check_ip(rl, ip, now')
       IN  /\ rl' = r.state
           /\ rlog' = Append(rlog,
                 [tier |-> "ip", key |-> ip, at |-> now', res |-> r.res,
                  gstart |-> r.state.global_count.window_start,
                  kstart |-> IF r.res = "Global" THEN 0
                             ELSE r.state.ip_counts[ip].window_start])
    /\ rl_ref' = check_ip_NoCleanup(rl_ref, ip, now').state
    /\ UNCHANGED <<entries, jlog, cfg_vars, request_count, metrics, audit, minted,
                   last_mint, mint_count, reqs, wa, wlog, wh_vars, fn_vars,
                   aud_vars, err_vars, lock_vars, boots, mreq, tok_vars>>

\* check_user(user_id), d after the previous call.
CheckUserCall(user_id, d) ==
    /\ Len(rlog) < MaxRateCalls
    /\ now' = now + d
    /\ LET r == check_user(rl, user_id, now')
       IN  /\ rl' = r.state
           /\ rlog' = Append(rlog,
                 [tier |-> "user", key |-> user_id, at |-> now', res |-> r.res,
                  gstart |-> 0,
                  kstart |-> r.state.user_counts[user_id].window_start])
    /\ rl_ref' = check_user(rl_ref, user_id, now').state
    /\ UNCHANGED <<entries, jlog, cfg_vars, request_count, metrics, audit, minted,
                   last_mint, mint_count, reqs, wa, wlog, wh_vars, fn_vars,
                   aud_vars, err_vars, lock_vars, boots, mreq, tok_vars>>

RateInit ==
    /\ now = 0
    /\ entries = EmptyMap
    /\ jlog = << >>
    /\ SvcIdle
    /\ TokIdle

RateNext ==
    \/ \E ip \in Ips, d \in RateDelays : CheckIpCall(ip, d)
    \/ \E user_id \in Users, d \in RateDelays : CheckUserCall(user_id, d)

SpecRate == RateInit /\ [][RateNext]_vars

\* ------------------------------------- the failure records on their own

\* The time between one call and the next: none, one tick short of the
\* lockout duration, the lockout duration.
LockDelays == { 0, Secs(LOCKOUT_DURATION) - 1, Secs(LOCKOUT_DURATION) }

WaStep(op, user_id, d, failures) ==
    /\ wlog.calls < MaxWaCalls
    /\ now' = now + d
    /\ wa' = [wa EXCEPT !.failures = failures]
    /\ wlog' = [calls |-> wlog.calls + 1, op |-> op, user |-> user_id,
                 fails |-> [u \in Users |->
                              IF u # user_id THEN wlog.fails[u]
                              ELSE IF op = "record_failure"
                                   THEN wlog.fails[u] + 1 ELSE 0],
                 last |-> [u \in Users |->
                              IF u # user_id THEN wlog.last[u]
                              ELSE IF op = "record_failure"
                                   THEN now + d ELSE 0]]
    /\ UNCHANGED <<entries, jlog, cfg_vars, request_count, metrics, audit, minted,
                   last_mint, mint_count, reqs, rl, rlog, wh_vars, fn_vars, lib_vars,
                   tok_vars>>

\* record_failure(user_id), d after the previous call.
RecordFailureCall(user_id, d) ==
    WaStep("record_failure", user_id, d, record_failure(wa.failures, user_id, now + d))

\* clear_failures(user_id), d after the previous call.
ClearFailuresCall(user_id, d) ==
    WaStep("clear_failures", user_id, d, clear_failures(wa.failures, user_id))

\* Time passes with no call that writes the failures map.
LockoutWait(d) == d > 0 /\ WaStep("none", 0, d, wa.failures)

LockoutInit ==
    /\ now = 0
    /\ entries = EmptyMap
    /\ jlog = << >>
    /\ SvcIdle
    /\ TokIdle

LockoutNext ==
    \/ \E user_id \in Users, d \in LockDelays : RecordFailureCall(user_id, d)
    \/ \E user_id \in Users, d \in LockDelays : ClearFailuresCall(user_id, d)
    \/ \E d \in LockDelays : LockoutWait(d)

SpecLockout == LockoutInit /\ [][LockoutNext]_vars

\* ------------------------------------------- the WebAuthn endpoints

\* A handler runs in a request slot, one step for each lock it takes; the
\* steps of the requests in flight interleave.  A new request takes the
\* first free slot.
FreeSlot(s) ==
    /\ wreq[s].op = "idle"
    /\ \A x \in Slots : x < s => wreq[x].op # "idle"

At(s, op, pc) == wreq[s].op = op /\ wreq[s].pc = pc

InSlot(s, op, pc, user_id, entry) ==
    [wreq EXCEPT ![s] = [op |-> op, pc |-> pc, user |-> user_id,
                         entry |-> entry]]

Freed(s) == [wreq EXCEPT ![s] = IdleSlot]

\* Whether a request is in flight.
InFlight == \E s \in Slots : wreq[s].op # "idle"

\* One more request was sent, overlapping or not with one in flight.
Began(h, op) ==
    [h EXCEPT !.calls[op] = @ + 1,
              !.overlaps = IF InFlight THEN @ + 1 ELSE @]

Answered(h, op, user_id, res, why) ==
    [h EXCEPT !.last = [op |-> op, user |-> user_id, res |-> res, why |-> why]]

\* What a step of a WebAuthn handler writes; it writes nothing else.
WaWrites(rl2, wa2, metrics2, wreq2, whist2) ==
    /\ rl' = rl2
    /\ wa' = wa2
    /\ metrics' = metrics2
    /\ wreq' = wreq2
    /\ whist' = whist2
    /\ UNCHANGED <<now, entries, jlog, cfg_vars, request_count, audit, minted,
                   last_mint, mint_count, reqs, rlog, wlog, fn_vars, lib_vars,
                   tok_vars>>

\* register_start, to the end of check_user.
RegisterStart(s, user_id) ==
    /\ FreeSlot(s)
    /\ LET r == check_user(rl, user_id, now)
       IN  IF r.res # "Ok"
           THEN WaWrites(r.state, wa, metrics, wreq,
                         Answered(Began(whist, "register_start"), "register_start", user_id,
                                  "RateLimited", "rate"))
           ELSE WaWrites(r.state, wa, metrics,
                         InSlot(s, "register_start", "insert", user_id, NoEntry),
                         Began(whist, "register_start"))

\* register_start, the block under the write lock of reg_challenges.
RegisterStartInsert(s) ==
    /\ At(s, "register_start", "insert")
    /\ LET user_id == wreq[s].user
           data == whist.issued + 1
           r == InsertChallenge(wa.reg_challenges, user_id, data, now)
       IN  WaWrites(rl, [wa EXCEPT !.reg_challenges = r.map], metrics, Freed(s),
                    IF r.res = "Ok"
                    THEN Answered([whist EXCEPT !.issued = data],
                                  "register_start", user_id, "Ok", "none")
                    ELSE Answered(whist, "register_start", user_id,
                                  "ServiceUnavailable", "capacity"))

\* register_finish, the removal of the entry.
RegisterFinish(s, user_id) ==
    /\ FreeSlot(s)
    /\ LET r == RemoveChallenge(wa.reg_challenges, user_id)
       IN  IF ~ r.found
           THEN WaWrites(rl, wa, metrics, wreq,
                         Answered(Began(whist, "register_finish"), "register_finish", user_id,
                                  "Unauthorized", "no pending"))
           ELSE WaWrites(rl, [wa EXCEPT !.reg_challenges = r.map], metrics,
                         InSlot(s, "register_finish", "verify", user_id, r.entry),
                         Began(whist, "register_finish"))

\* register_finish from the TTL test on; `ok` is whether the credential of
\* the request passes finish_passkey_registration.
RegisterFinishVerify(s, ok) ==
    /\ At(s, "register_finish", "verify")
    /\ LET user_id == wreq[s].user
           entry == wreq[s].entry
       IN  IF ChallengeExpired(entry, now)
           THEN WaWrites(rl, wa, metrics, Freed(s),
                         Answered(whist, "register_finish", user_id,
                                  "Unauthorized", "expired"))
           ELSE IF ~ ok
           THEN WaWrites(rl, wa, metrics, Freed(s),
                         Answered(whist, "register_finish", user_id,
                                  "Unauthorized", "verify"))
           ELSE WaWrites(rl,
                         [wa EXCEPT !.credentials =
                                        MapInsert(@, user_id, entry.data)],
                         Bump(metrics, "webauthn_registers"), Freed(s),
                         Answered(whist, "register_finish", user_id,
                                  "Ok", "none"))

\* auth_start, the lockout test.
AuthStart(s, user_id) ==
    /\ FreeSlot(s)
    /\ IF is_locked_out(wa.failures, user_id, now)
       THEN WaWrites(rl, wa, Bump(metrics, "webauthn_lockouts"), wreq,
                     Answered(Began(whist, "auth_start"), "auth_start", user_id,
                              "RateLimited", "locked"))
       ELSE WaWrites(rl, wa, metrics,
                     InSlot(s, "auth_start", "rate", user_id, NoEntry),
                     Began(whist, "auth_start"))

\* auth_start, check_user.
AuthStartRate(s) ==
    /\ At(s, "auth_start", "rate")
    /\ LET user_id == wreq[s].user
           r == check_user(rl, user_id, now)
       IN  IF r.res # "Ok"
           THEN WaWrites(r.state, wa, metrics, Freed(s),
                         Answered(whist, "auth_start", user_id,
                                  "RateLimited", "rate"))
           ELSE WaWrites(r.state, wa, metrics,
                         InSlot(s, "auth_start", "credentials", user_id, NoEntry),
                         whist)

\* auth_start, the read of the user's credential.
AuthStartCredentials(s) ==
    /\ At(s, "auth_start", "credentials")
    /\ LET user_id == wreq[s].user
       IN  IF user_id \notin DOMAIN wa.credentials
           THEN WaWrites(rl, wa, metrics, Freed(s),
                         Answered(whist, "auth_start", user_id,
                                  "Unauthorized", "not registered"))
           ELSE WaWrites(rl, wa, metrics,
                         InSlot(s, "auth_start", "insert", user_id, NoEntry),
                         whist)

\* auth_start, the block under the write lock of auth_challenges.
AuthStartInsert(s) ==
    /\ At(s, "auth_start", "insert")
    /\ LET user_id == wreq[s].user
           data == whist.issued + 1
           r == InsertChallenge(wa.auth_challenges, user_id, data, now)
       IN  WaWrites(rl, [wa EXCEPT !.auth_challenges = r.map], metrics, Freed(s),
                    IF r.res = "Ok"
                    THEN Answered([whist EXCEPT !.issued = data],
                                  "auth_start", user_id, "Ok", "none")
                    ELSE Answered(whist, "auth_start", user_id,
                                  "ServiceUnavailable", "capacity"))

\* auth_finish, the lockout test.
AuthFinish(s, user_id) ==
    /\ FreeSlot(s)
    /\ IF is_locked_out(wa.failures, user_id, now)
       THEN WaWrites(rl, wa, metrics, wreq,
                     Answered(Began(whist, "auth_finish"), "auth_finish", user_id,
                              "RateLimited", "locked"))
       ELSE WaWrites(rl, wa, metrics,
                     InSlot(s, "auth_finish", "take", user_id, NoEntry),
                     Began(whist, "auth_finish"))

\* auth_finish, the removal of the entry.
AuthFinishTake(s) ==
    /\ At(s, "auth_finish", "take")
    /\ LET user_id == wreq[s].user
           r == RemoveChallenge(wa.auth_challenges, user_id)
       IN  IF ~ r.found
           THEN WaWrites(rl, wa, metrics, Freed(s),
                         Answered(whist, "auth_finish", user_id,
                                  "Unauthorized", "no pending"))
           ELSE WaWrites(rl, [wa EXCEPT !.auth_challenges = r.map], metrics,
                         InSlot(s, "auth_finish", "verify", user_id, r.entry),
                         whist)

\* auth_finish from the TTL test on; `ok` is whether the credential of the
\* request passes finish_passkey_authentication.
AuthFinishVerify(s, ok) ==
    /\ At(s, "auth_finish", "verify")
    /\ LET user_id == wreq[s].user
           entry == wreq[s].entry
       IN  IF ChallengeExpired(entry, now)
           THEN WaWrites(rl, wa, metrics, Freed(s),
                         Answered(whist, "auth_finish", user_id,
                                  "Unauthorized", "expired"))
           ELSE IF ok
           THEN WaWrites(rl,
                         [wa EXCEPT !.failures = clear_failures(@, user_id)],
                         Bump(metrics, "webauthn_successes"), Freed(s),
                         Answered([whist EXCEPT !.fails[user_id] = << >>],
                                  "auth_finish", user_id, "Ok", "none"))
           ELSE WaWrites(rl,
                         [wa EXCEPT !.failures = record_failure(@, user_id, now)],
                         Bump(metrics, "webauthn_failures"), Freed(s),
                         Answered([whist EXCEPT !.fails[user_id] = Append(@, now)],
                                  "auth_finish", user_id, "Unauthorized",
                                  "verify"))

\* Time passes: the life of a challenge, or the length of a lockout.
WaDelays == { Secs(CHALLENGE_TTL), Secs(LOCKOUT_DURATION) }

PassTime(d) ==
    /\ whist.passes < MaxWaPass
    /\ now' = now + d
    /\ whist' = [whist EXCEPT !.passes = @ + 1]
    /\ UNCHANGED <<entries, jlog, cfg_vars, request_count, metrics, audit, minted,
                   last_mint, mint_count, reqs, rl, rlog, wa, wlog, wreq,
                   fn_vars, lib_vars, tok_vars>>

\* The service with WebAuthn configured, before any request.
WebAuthnInit ==
    /\ now = 0
    /\ entries = EmptyMap
    /\ jlog = << >>
    /\ SvcIdle
    /\ TokIdle

\* A step of a request in flight.
WaContinue ==
    \E s \in Slots :
        \/ RegisterStartInsert(s)
        \/ \E ok \in BOOLEAN : RegisterFinishVerify(s, ok)
        \/ AuthStartRate(s)
        \/ AuthStartCredentials(s)
        \/ AuthStartInsert(s)
        \/ AuthFinishTake(s)
        \/ \E ok \in BOOLEAN : AuthFinishVerify(s, ok)

\* Whether one more request may be sent to an endpoint: at most MaxOverlap
\* requests are sent while another one is in flight.
MaySend(op) ==
    /\ whist.calls[op] < MaxWaReq[op]
    /\ InFlight => whist.overlaps < MaxOverlap

\* Whether one more request may be sent when MaxFill requests are sent in
\* all, to whichever endpoints, one after the other.
MayFill(op) ==
    /\ whist.calls["register_start"] + whist.calls["register_finish"]
          + whist.calls["auth_start"] + whist.calls["auth_finish"] < MaxFill
    /\ ~ InFlight

\* A new request of one of the users in U, to one of the endpoints in ops.
WaBegin(U, ops) ==
    \E s \in Slots, user_id \in U :
        \/ "register_start" \in ops /\ RegisterStart(s, user_id)
        \/ "register_finish" \in ops /\ RegisterFinish(s, user_id)
        \/ "auth_start" \in ops /\ AuthStart(s, user_id)
        \/ "auth_finish" \in ops /\ AuthFinish(s, user_id)

\* One user registers and authenticates, with requests that overlap.
WebAuthnNext ==
    \/ WaBegin({1}, {op \in WaOps : MaySend(op)})
    \/ WaContinue
    \/ \E d \in WaDelays : PassTime(d)

SpecWebAuthn == WebAuthnInit /\ [][WebAuthnNext]_vars

\* More users than a challenge map holds send a few requests, to any of
\* the endpoints.
FillNext ==
    \/ WaBegin(WaUsers, {op \in WaOps : MayFill(op)})
    \/ WaContinue
    \/ \E d \in WaDelays : PassTime(d)

SpecChallenges == WebAuthnInit /\ [][FillNext]_vars

\* ------------------------------------- requests racing with a lockout

\* Whether one more request may be sent: the requests come one after the
\* other until the user is one failure from the lockout, and then up to
\* MaxOverlap of them are sent while another one is in flight.
MayRace(op) ==
    /\ whist.calls[op] < (IF op = "auth_start" THEN MaxRaceStart ELSE MaxWaReq[op])
    /\ InFlight => /\ 1 \in DOMAIN wa.failures
                   /\ wa.failures[1].count >= LOCKOUT_THRESHOLD - 1
                   /\ whist.overlaps < MaxOverlap

\* Time passes between two requests.
Wait(d) ==
    /\ whist.passes < MaxRacePass
    /\ ~ InFlight
    /\ now' = now + d
    /\ whist' = [whist EXCEPT !.passes = @ + 1]
    /\ UNCHANGED <<entries, jlog, cfg_vars, request_count, metrics, audit, minted,
                   last_mint, mint_count, reqs, rl, rlog, wa, wlog, wreq,
                   fn_vars, lib_vars, tok_vars>>

RaceNext ==
    \/ WaBegin({1}, {op \in WaOps : MayRace(op)})
    \/ WaContinue
    \/ \E d \in WaDelays : Wait(d)

\* One user registers, fails to authenticate, and sends requests that
\* overlap when one more failure locks them out.
SpecLockRace == WebAuthnInit /\ [][RaceNext]_vars

\* ------------------------------------------------- the audit log alone

\* The subjects and actions logged: a short one of each, or one of each
\* that is one character over the length log keeps.
AuditInputs ==
    { [sub |-> << 97 >>, action |-> << 100 >>],
      [sub |-> [i \in 1..(MAX_SUB_LEN + 1) |-> 97],
       action |-> [i \in 1..(MAX_ACTION_LEN + 1) |-> 98]] }
Limits == 0..MaxLimit

\* audit_log.log(jti, sub, action, Utc::now()); the failure of the INSERT
\* is returned as Error::Database.
AuditLogCall(jti, sub, action) ==
    /\ alog.calls < MaxAuditCalls
    /\ LET a == AuditLog_log(audit, jti, sub, action, now)
       IN  /\ audit' = a.rows
           /\ alog' = [calls |-> alog.calls + 1, op |-> "log", jti |-> jti,
                       limit |-> 0,
                       res |-> IF a.ok THEN "Ok" ELSE "Database",
                       out |-> << >>,
                       logged |-> IF a.ok THEN Append(alog.logged, jti)
                                  ELSE alog.logged]
    /\ UNCHANGED <<now, entries, jlog, cfg_vars, request_count, metrics, minted,
                   last_mint, mint_count, reqs, rl, rlog, wa, wlog, wh_vars,
                   fn_vars, err_vars, lock_vars, late_vars, tok_vars>>

\* audit_log.recent(limit).
AuditRecentCall(limit) ==
    /\ alog.calls < MaxAuditCalls
    /\ alog' = [alog EXCEPT !.calls = @ + 1, !.op = "recent", !.jti = 0,
                            !.limit = limit, !.res = "Ok",
                            !.out = recent(audit, limit)]
    /\ UNCHANGED <<now, entries, jlog, cfg_vars, request_count, metrics, audit,
                   minted, last_mint, mint_count, reqs, rl, rlog, wa, wlog,
                   wh_vars, fn_vars, err_vars, lock_vars, late_vars, tok_vars>>

AuditNext ==
    \/ Tick
    \/ \E jti \in Jtis, in \in AuditInputs :
          AuditLogCall(jti, in.sub, in.action)
    \/ \E limit \in Limits : AuditRecentCall(limit)

\* AuditLog::open_in_memory, then log and recent calls.
SpecAudit == Init /\ [][AuditNext]_vars

\* ------------------------------------------------------- the locks alone

\* The locks of the stores: the Mutex of the replay store, of the audit
\* log and of the rate limiter, the RwLock of each WebAuthn map and of the
\* JWKS cache.
Mutexes == {"jti", "audit", "rate"}
RwLocks == {"failures", "reg_challenges", "auth_challenges", "credentials", "jwks"}
Locks == Mutexes \cup RwLocks

\* A guard is taken (lock, read, write) and dropped.
Acq(l, mode) == [op |-> "acq", lock |-> l, mode |-> mode]
Rel(l) == [op |-> "rel", lock |-> l, mode |-> "none"]
Section(l, mode) == << Acq(l, mode), Rel(l) >>

Handlers ==
    {"mint", "proxy", "audit", "metrics", "register_start", "register_finish",
     "auth_start", "auth_finish"}

\* auth_finish with the guard of auth_challenges kept in a variable to the
\* end of the handler.
LockPlan_AuthFinishKeepsGuard ==
    [h \in Handlers |->
        CASE h = "mint" ->
                 Section("jwks", "read") \o Section("jwks", "write")
                     \o Section("jwks", "read")
          [] h = "proxy" -> Section("jti", "lock") \o Section("audit", "lock")
          [] h = "audit" -> Section("audit", "lock")
          [] h = "metrics" -> << >>
          [] h = "register_start" ->
                 Section("rate", "lock") \o Section("reg_challenges", "write")
          [] h = "register_finish" ->
                 Section("reg_challenges", "write") \o Section("credentials", "write")
          [] h = "auth_start" ->
                 Section("failures", "read") \o Section("rate", "lock")
                     \o Section("credentials", "read")
                     \o Section("auth_challenges", "write")
          [] h = "auth_finish" ->
                 Section("failures", "read")
                     \o << Acq("auth_challenges", "write") >>
                     \o Section("failures", "write")
                     \o << Rel("auth_challenges") >>]

\* The guards each handler takes and drops, in the order of its code to
\* the end of its longest path: mint (OidcVerifier::get_key: the cache is
\* read, refreshed, read again), proxy (check_and_insert, log), audit
\* (recent), metrics (atomics only) and the four WebAuthn handlers.
LockPlan ==
    [h \in Handlers |->
        CASE h = "mint" ->
                 Section("jwks", "read") \o Section("jwks", "write")
                     \o Section("jwks", "read")
          [] h = "proxy" -> Section("jti", "lock") \o Section("audit", "lock")
          [] h = "audit" -> Section("audit", "lock")
          [] h = "metrics" -> << >>
          [] h = "register_start" ->
                 Section("rate", "lock") \o Section("reg_challenges", "write")
          [] h = "register_finish" ->
                 Section("reg_challenges", "write") \o Section("credentials", "write")
          [] h = "auth_start" ->
                 Section("failures", "read") \o Section("rate", "lock")
                     \o Section("credentials", "read")
                     \o Section("auth_challenges", "write")
          [] h = "auth_finish" ->
                 Section("failures", "read") \o Section("auth_challenges", "write")
                     \o Section("failures", "write")]

\* The steps a thread has before it, and the guards it holds: those taken
\* in the steps behind it and not dropped since.
PlanOf(t) == IF lreq[t].handler = "idle" THEN << >> ELSE LockPlan[lreq[t].handler]

HeldAt(plan, pc) ==
    {plan[i] : i \in {i \in 1..pc :
        /\ plan[i].op = "acq"
        /\ ~ \E j \in (i + 1)..pc :
               plan[j].op = "rel" /\ plan[j].lock = plan[i].lock}}

Held(t) == HeldAt(PlanOf(t), lreq[t].pc)

NextStep(t) == PlanOf(t)[lreq[t].pc + 1]
HasNext(t) == lreq[t].pc < Len(PlanOf(t))

\* Whether a guard of lock l may be taken in a mode by thread t: a read
\* guard when no thread writes, any other when no thread holds a guard.
Available(l, mode, t) ==
    \A u \in Threads :
        \A g \in Held(u) :
            g.lock = l => (mode = "read" /\ g.mode = "read" /\ u # t)

\* A request arrives and a thread runs its handler.
LockBegin(t, h) ==
    /\ lreq[t].handler = "idle"
    /\ lreq' = [lreq EXCEPT ![t] = [handler |-> h, pc |-> 0]]
    /\ UNCHANGED <<now, entries, jlog, cfg_vars, request_count, metrics, audit,
                   minted, last_mint, mint_count, reqs, rl, rlog, wa, wlog,
                   wh_vars, fn_vars, aud_vars, err_vars, late_vars, tok_vars>>

\* lock(), read(), write(): the thread waits until the guard is available.
LockAcquire(t) ==
    /\ HasNext(t)
    /\ NextStep(t).op = "acq"
    /\ Available(NextStep(t).lock, NextStep(t).mode, t)
    /\ lreq' = [lreq EXCEPT ![t].pc = @ + 1]
    /\ UNCHANGED <<now, entries, jlog, cfg_vars, request_count, metrics, audit,
                   minted, last_mint, mint_count, reqs, rl, rlog, wa, wlog,
                   wh_vars, fn_vars, aud_vars, err_vars, late_vars, tok_vars>>

\* The guard goes out of scope.
LockRelease(t) ==
    /\ HasNext(t)
    /\ NextStep(t).op = "rel"
    /\ lreq' = [lreq EXCEPT ![t].pc = @ + 1]
    /\ UNCHANGED <<now, entries, jlog, cfg_vars, request_count, metrics, audit,
                   minted, last_mint, mint_count, reqs, rl, rlog, wa, wlog,
                   wh_vars, fn_vars, aud_vars, err_vars, late_vars, tok_vars>>

\* The handler returns, at its end or with an error between two guards.
LockReturn(t) ==
    /\ lreq[t].handler # "idle"
    /\ Held(t) = {}
    /\ lreq' = [lreq EXCEPT ![t] = IdleThread]
    /\ UNCHANGED <<now, entries, jlog, cfg_vars, request_count, metrics, audit,
                   minted, last_mint, mint_count, reqs, rl, rlog, wa, wlog,
                   wh_vars, fn_vars, aud_vars, err_vars, late_vars, tok_vars>>

LockNext ==
    \E t \in Threads :
        \/ \E h \in Handlers : LockBegin(t, h)
        \/ LockAcquire(t)
        \/ LockRelease(t)
        \/ LockReturn(t)

\* The threads run handlers for ever; no guard is held across an await, so
\* a thread that holds one goes on to drop it.
SpecLocks ==
    Init /\ [][LockNext]_vars /\ \A t \in Threads : WF_vars(LockRelease(t))

\* ------------------------------------------------------ claims on the locks

\* Thread t waits for a guard that a thread of S holds.
WaitsFor(t, S) ==
    /\ HasNext(t)
    /\ NextStep(t).op = "acq"
    /\ \E u \in S \ {t} : \E g \in Held(u) :
          g.lock = NextStep(t).lock
            /\ (NextStep(t).mode # "read" \/ g.mode # "read")

\* Some threads hold guards and wait for each other.
Deadlocked ==
    \E S \in SUBSET Threads :
        /\ S # {}
        /\ \A t \in S : Held(t) # {} /\ WaitsFor(t, S)

HoldsLock(t, l) == \E g \in Held(t) : g.lock = l

\* C32: no handler holds two of the locks at the same time; no threads
\* wait for each other; a thread that has taken a guard drops it.
C32_OneLockAtATime ==
    /\ [](\A t \in Threads : Cardinality(Held(t)) <= 1)
    /\ [](~ Deadlocked)
    /\ \A t \in Threads, l \in Locks : HoldsLock(t, l) ~> ~ HoldsLock(t, l)

\* A thread in auth_finish holds the write guard of the failures while a
\* thread in auth_start waits to read them.
C32_Witness ==
    \E t, u \in Threads :
        /\ lreq[t].handler = "auth_finish"
        /\ Held(t) = {Acq("failures", "write")}
        /\ lreq[u].handler = "auth_start"
        /\ WaitsFor(u, {t})

\* ---------------------------------------------------- the error responses

\* The inner values of the errors: a jti, the message of a failed INSERT,
\* the message of lock_err, a policy message, a validation message, a path.
Details ==
    { "7c9e6679-7425-40de-944b-e07fc1f90ae7",
      "UNIQUE constraint failed: audit_log.jti",
      "audit lock poisoned",
      "amount 75 exceeds limit 50",
      "sub must not be empty",
      "/var/lib/agentmint/audit.db" }

Errors ==
    [kind : UnitKinds, detail : {""}]
        \cup [kind : DetailKinds \cup MissingKinds, detail : Details]

\* A handler returns Err(err).
Fail(err) ==
    /\ err_in = NoError
    /\ err_in' = err
    /\ UNCHANGED <<now, entries, jlog, cfg_vars, request_count, metrics, audit,
                   minted, last_mint, mint_count, reqs, rl, rlog, wa, wlog,
                   wh_vars, fn_vars, aud_vars, err_out, lock_vars, late_vars,
                   tok_vars>>

\* axum makes the response of it: Error::into_response.
Respond ==
    /\ err_in # NoError
    /\ ~ err_out.done
    /\ err_out' = into_response(err_in)
    /\ UNCHANGED <<now, entries, jlog, cfg_vars, request_count, metrics, audit,
                   minted, last_mint, mint_count, reqs, rl, rlog, wa, wlog,
                   wh_vars, fn_vars, aud_vars, err_in, lock_vars, late_vars,
                   tok_vars>>

ErrorNext ==
    \/ \E err \in Errors : Fail(err)
    \/ Respond

SpecError == Init /\ [][ErrorNext]_vars

\* ------------------------------------------- claims on the error responses

\* The status the documentation gives each kind of error.
DocumentedStatus(kind) ==
    IF kind \in {"TokenExpired", "InvalidSignature", "InvalidToken",
                 "Unauthorized"} THEN 401
    ELSE IF kind = "ReplayDetected" THEN 409
    ELSE IF kind = "PolicyViolation" THEN 403
    ELSE IF kind = "RateLimited" THEN 429
    ELSE IF kind \in {"Validation", "Base64"} THEN 400
    ELSE IF kind = "ServiceUnavailable" THEN 503
    ELSE IF kind \in {"Database", "Serialization", "Signing"} THEN 500
    ELSE 0

\* C29: the response to an error of each kind has the status documented
\* for the kind: 401 for TokenExpired, InvalidSignature, InvalidToken and
\* Unauthorized, 409 for ReplayDetected, 403 for PolicyViolation, 429 for
\* RateLimited, 400 for Validation and Base64, 503 for ServiceUnavailable,
\* 500 for Database, Serialization and Signing.
C29_StatusOfEachKind ==
    err_out.done => /\ err_out.status = DocumentedStatus(err_in.kind)
                    /\ err_out.status # 0

\* A Base64 error has been answered.
C29_Witness ==
    /\ err_out.done
    /\ err_in.kind = "Base64"
    /\ err_out.status = 400

\* The kinds answered with a status of the 500 class.
ServerErrorKinds == {"ServiceUnavailable", "Database", "Serialization", "Signing"}

\* C30: but for Validation, the body of the response to an error is the
\* same whatever the inner value of the error; for the kinds of the 500
\* class and for ReplayDetected the body is not the inner value.
C30_BodyIndependentOfDetail ==
    err_out.done /\ err_in.kind # "Validation" =>
        /\ \A d \in Details \cup {""} :
              client_message([kind |-> err_in.kind, detail |-> d]) = err_out.body
        /\ err_in.kind \in ServerErrorKinds \cup {"ReplayDetected"} =>
              err_out.body \notin Details \cup {""}

\* A replay has been answered: the error carries the jti.
C30_Witness ==
    /\ err_out.done
    /\ err_in = [kind |-> "ReplayDetected",
                 detail |-> "7c9e6679-7425-40de-944b-e07fc1f90ae7"]
    /\ err_out.body = "token rejected"

\* ------------------------------------------------ claims on the audit log

\* C25: the audit log holds at most one row per jti; a log call with a jti
\* the table holds fails with a Database error and leaves the table as it
\* was; no operation changes or removes a row the table holds.
C25_OneRowPerJti ==
    [][ /\ \A jti \in Jtis : Cardinality(RowsOf(audit', jti)) <= 1
        /\ Len(audit') >= Len(audit)
        /\ SubSeq(audit', 1, Len(audit)) = audit
        /\ (alog'.calls # alog.calls /\ alog'.op = "log"
              /\ RowsOf(audit, alog'.jti) # {}) =>
               (alog'.res = "Database" /\ audit' = audit)
      ]_vars

\* A second log call with a jti has failed on a table of two rows.
C25_Witness ==
    /\ alog.op = "log"
    /\ alog.res = "Database"
    /\ Len(audit) = 2
    /\ RowsOf(audit, alog.jti) = {1}

\* C26: recent(n) returns min(n, number of rows) rows: the rows logged
\* last, the latest first, each before the one logged just before it.
C26_RecentNewestFirst ==
    alog.op = "recent" =>
        LET n == IF alog.limit < Len(audit) THEN alog.limit ELSE Len(audit)
            k == Len(alog.logged)
        IN  /\ Len(alog.out) = n
            /\ k = Len(audit)
            /\ \A i \in 1..n : alog.out[i].jti = alog.logged[k - i + 1]
            /\ \A i \in 1..n : alog.out[i] \in {audit[j] : j \in 1..Len(audit)}

\* recent(2) on a table of three rows.
C26_Witness ==
    /\ alog.op = "recent"
    /\ alog.limit = 2
    /\ Len(audit) = 3
    /\ Len(alog.out) = 2

\* ------------------------------------ claims on the WebAuthn endpoints

\* The request in slot s gets its answer in this step.
Answers(s) == wreq[s].op # "idle" /\ wreq'[s].op = "idle"

\* An auth_finish in slot s ends in this step with the credential verified,
\* or with the credential refused.
AuthSucceeds(s) ==
    /\ At(s, "auth_finish", "verify")
    /\ Answers(s)
    /\ whist'.last.res = "Ok"
AuthFails(s) ==
    /\ At(s, "auth_finish", "verify")
    /\ Answers(s)
    /\ whist'.last.why = "verify"

\* An auth_start in slot s ends in this step with a challenge issued.
AuthStartSucceeds(s) ==
    /\ At(s, "auth_start", "insert")
    /\ Answers(s)
    /\ whist'.last.res = "Ok"

\* C39: no auth_start and no auth_finish of a user succeeds in a step
\* taken while the user is locked out, and no step but the passing of time
\* ends a lockout: the failure record of a locked-out user is not cleared.
C39_NoSuccessWhileLockedOut ==
    [][ /\ \A s \in Slots :
              AuthSucceeds(s) \/ AuthStartSucceeds(s) =>
                  ~ is_locked_out(wa.failures, wreq[s].user, now)
        /\ \A u \in WaUsers :
              is_locked_out(wa.failures, u, now) /\ now' = now =>
                  is_locked_out(wa'.failures, u, now')
      ]_vars

\* The failure count of a user, 0 with no record.
FailureCount(failures, user_id) ==
    IF user_id \in DOMAIN failures THEN failures[user_id].count ELSE 0

RecentFailures(user_id) ==
    LET f == whist.fails[user_id]
    IN  {i \in 1..Len(f) : Last(f) - f[i] <= Secs(LOCKOUT_DURATION)}

\* C22 as stated: a user is locked out only if LOCKOUT_THRESHOLD or more
\* of their authentications failed within the 15 minutes before the lockout
\* began, with no success in between.
C22_LockedOnlyByRecentFailures ==
    \A u \in WaUsers :
        is_locked_out(wa.failures, u, now) =>
            Cardinality(RecentFailures(u)) >= LOCKOUT_THRESHOLD

\* The challenge map a finish endpoint takes its entry from.
ChallengesOf(w, op) ==
    IF op = "register_finish" THEN w.reg_challenges ELSE w.auth_challenges

FinishOps == {"register_finish", "auth_finish"}

\* The request in slot s holds a challenge entry it took from a map.
Holds(s) == wreq[s].op \in FinishOps /\ wreq[s].pc = "verify"

\* An entry a request holds is in no map, and no two requests hold the
\* same entry.
SingleUse ==
    \A s \in Slots :
        Holds(s) =>
            /\ \A u \in DOMAIN wa.reg_challenges :
                  wa.reg_challenges[u].data # wreq[s].entry.data
            /\ \A u \in DOMAIN wa.auth_challenges :
                  wa.auth_challenges[u].data # wreq[s].entry.data
            /\ \A x \in Slots \ {s} :
                  Holds(x) => wreq[x].entry.data # wreq[s].entry.data

\* A request to a finish endpoint is answered in this step without having
\* got an entry, the user having none in the map.
FoundGone(op) ==
    /\ whist'.last.op = op
    /\ whist'.last.user \notin DOMAIN ChallengesOf(wa, op)
    /\ \/ whist'.calls[op] = whist.calls[op] + 1 /\ wreq' = wreq
       \/ \E s \in Slots : At(s, op, "take") /\ Answers(s)

\* The request in slot s takes the entry of its user in this step.
Takes(s, op) ==
    /\ wreq'[s].op = op
    /\ wreq'[s].pc = "verify"
    /\ wreq[s].pc # "verify"

\* The request in slot s, which holds an entry, is answered in this step.
Verifies(s) == Holds(s) /\ Answers(s)

\* C23 as stated: of the finish calls for one challenge at most one gets
\* the entry, every other call finds it gone and fails Unauthorized, and
\* the entry stays removed however the finish that took it ends.
C23_SingleUseElseUnauthorized ==
    [][ /\ SingleUse'
        /\ \A op \in FinishOps :
              /\ FoundGone(op) => whist'.last.res = "Unauthorized"
              /\ \A s \in Slots :
                    Takes(s, op) =>
                        wreq'[s].user \notin DOMAIN ChallengesOf(wa', op)
        /\ \A s \in Slots :
              Verifies(s) =>
                  /\ wa'.reg_challenges = wa.reg_challenges
                  /\ wa'.auth_challenges = wa.auth_challenges
      ]_vars

\* C23, amended: as above, but an auth_finish for a user who is locked
\* out fails RateLimited before it looks for the entry, and leaves the
\* challenge maps as they are.
C23_SingleUse ==
    [][ /\ SingleUse'
        /\ \A op \in FinishOps :
              /\ FoundGone(op) =>
                    IF op = "auth_finish" /\ whist'.calls[op] # whist.calls[op]
                       /\ is_locked_out(wa.failures, whist'.last.user, now)
                    THEN /\ whist'.last.res = "RateLimited"
                         /\ wa' = wa
                    ELSE /\ whist'.last.res = "Unauthorized"
                         /\ whist'.last.why = "no pending"
              /\ \A s \in Slots :
                    Takes(s, op) =>
                        /\ wreq'[s].user \notin DOMAIN ChallengesOf(wa', op)
                        /\ wreq'[s].user \in DOMAIN ChallengesOf(wa, op)
                        /\ wreq'[s].entry = ChallengesOf(wa, op)[wreq'[s].user]
        /\ \A s \in Slots :
              Verifies(s) =>
                  /\ wa'.reg_challenges = wa.reg_challenges
                  /\ wa'.auth_challenges = wa.auth_challenges
                  /\ whist'.last.res \in {"Ok", "Unauthorized"}
      ]_vars

\* Two auth_finish requests of one user overlap: one has taken the entry,
\* the other has passed the lockout test and is about to look for it.
C23_Witness ==
    \E s \in Slots, x \in Slots :
        /\ At(s, "auth_finish", "verify")
        /\ At(x, "auth_finish", "take")
        /\ wreq[x].user = wreq[s].user
        /\ wreq[s].user \notin DOMAIN wa.auth_challenges

\* The challenge map a start endpoint inserts into.
StartMapOf(w, op) ==
    IF op = "register_start" THEN w.reg_challenges ELSE w.auth_challenges

StartOps == {"register_start", "auth_start"}

\* The users whose entry in a challenge map is younger than CHALLENGE_TTL.
Unexpired(map, t) ==
    {u \in DOMAIN map : t - map[u].created < Secs(CHALLENGE_TTL)}

\* C24: no challenge map ever holds more than MAX_CHALLENGES entries; the
\* insertion of a start call drops the expired entries, then answers
\* ServiceUnavailable and inserts nothing if MAX_CHALLENGES entries are
\* left, and else inserts the entry of its user.
C24_ChallengeMapsBounded ==
    [][ /\ Cardinality(DOMAIN wa'.reg_challenges) <= MAX_CHALLENGES
        /\ Cardinality(DOMAIN wa'.auth_challenges) <= MAX_CHALLENGES
        /\ \A s \in Slots, op \in StartOps :
              At(s, op, "insert") /\ Answers(s) =>
                  LET before == StartMapOf(wa, op)
                      after == StartMapOf(wa', op)
                      kept == Unexpired(before, now)
                      user_id == wreq[s].user
                  IN  IF Cardinality(kept) >= MAX_CHALLENGES
                      THEN /\ whist'.last.res = "ServiceUnavailable"
                           /\ DOMAIN after = kept
                           /\ \A u \in kept : after[u] = before[u]
                      ELSE /\ whist'.last.res = "Ok"
                           /\ DOMAIN after = kept \cup {user_id}
                           /\ after[user_id].created = now
                           /\ \A u \in kept \ {user_id} : after[u] = before[u]
      ]_vars

\* The authentication challenge map is full and an auth_start has been
\* answered ServiceUnavailable.
C24_Witness ==
    /\ whist.last.op = "auth_start"
    /\ whist.last.res = "ServiceUnavailable"
    /\ Cardinality(DOMAIN wa.auth_challenges) = MAX_CHALLENGES
    /\ \A u \in DOMAIN wa.auth_challenges :
          now - wa.auth_challenges[u].created < Secs(CHALLENGE_TTL)

\* ------------------------------------- claims on the WebAuthn lockout

\* C20: a user is locked out exactly when 5 or more of their failures have
\* been recorded since their last clear and the latest is less than 15
\* minutes old; so never with no failure or fewer than 5, never once 15
\* minutes have passed, and never by the failures of another user.
C20_LockedOutIff ==
    \A u \in Users :
        is_locked_out(wa.failures, u, now)
            <=> /\ wlog.fails[u] >= LOCKOUT_THRESHOLD
                /\ now - wlog.last[u] < Secs(LOCKOUT_DURATION)

\* User 1 failed LOCKOUT_THRESHOLD times and, one tick short of 15 minutes
\* later, is still locked out, while user 2, who has just failed once, is not.
C20_Witness ==
    /\ wlog.fails[1] = LOCKOUT_THRESHOLD
    /\ now - wlog.last[1] = Secs(LOCKOUT_DURATION) - 1
    /\ is_locked_out(wa.failures, 1, now)
    /\ wlog.op = "record_failure" /\ wlog.user = 2
    /\ wlog.fails[2] = 1
    /\ ~ is_locked_out(wa.failures, 2, now)

\* ---------------------------------------------------- claims on /proxy

\* The requests that presented the k-th minted token and got the 200
\* response.
Succeeded(k) ==
    {r \in ReqIds : reqs[r].pc = "done" /\ reqs[r].tok = k /\ reqs[r].res = "Ok"}

\* C35: when the audit insert of a request fails after its check_and_insert
\* succeeded, the request ends with Error::Database, the replay store is
\* left as it is and tokens_verified is not incremented; and no request
\* that arrives for a token after a request for that token has ended with
\* Error::Database gets the 200 response.
C35_FailedAuditConsumesToken ==
    [][ \A r \in ReqIds :
          /\ ( reqs[r].pc = "inserted" /\ reqs'[r].pc = "done"
                 /\ reqs'[r].res # "Ok" ) =>
                /\ reqs'[r].res = "Database"
                /\ entries' = entries
                /\ metrics'.tokens_verified = metrics.tokens_verified
          /\ ( reqs[r].pc # "done" /\ reqs'[r].pc = "done"
                 /\ reqs'[r].res = "Ok" ) =>
                ~ reqs[r].after_failure
      ]_vars

\* The steps a /proxy request takes from one place in the handler to the
\* next, and the row log writes for the token a request presents.
ProxyOrder ==
    { <<"idle", "verified">>, <<"idle", "done">>, <<"verified", "inserted">>,
      <<"verified", "done">>, <<"inserted", "done">> }

RowOf(r, t) ==
    LET c == minted[reqs[r].tok].claims
    IN  [jti |-> c.jti, sub |-> c.sub, action |-> c.action, verified_at |-> t]

\* C27: a /proxy request verifies the token, then has the replay store
\* check and insert its jti, then appends the audit row, in this order; a
\* row is appended only for a token that was verified and whose jti was
\* inserted in the replay store; the successful response comes with the
\* appending of exactly one row, which carries the jti, sub and action of
\* the token, and the table holds just that one row of the jti.
C27_VerifyThenReplayThenAudit ==
    [][ /\ \A r \in ReqIds :
              /\ reqs'[r].pc # reqs[r].pc => <<reqs[r].pc, reqs'[r].pc>> \in ProxyOrder
              /\ reqs'[r].pc = "verified" /\ reqs[r].pc # "verified" =>
                    /\ reqs'[r].claims = minted[reqs'[r].tok].claims
                    /\ ~ is_expired(reqs'[r].claims, now)
                    /\ entries' = entries /\ audit' = audit
              /\ reqs'[r].pc = "inserted" /\ reqs[r].pc # "inserted" =>
                    /\ reqs[r].claims.jti \in DOMAIN entries'
                    /\ audit' = audit
              /\ reqs'[r].res = "Ok" /\ reqs[r].res # "Ok" =>
                    /\ reqs[r].pc = "inserted"
                    /\ audit' = Append(audit, RowOf(r, now))
                    /\ Cardinality(RowsOf(audit', reqs[r].claims.jti)) = 1
        /\ audit' # audit =>
              \E r \in ReqIds :
                  /\ reqs[r].pc = "inserted"
                  /\ reqs'[r].res = "Ok"
                  /\ audit' = Append(audit, RowOf(r, now))
      ]_vars

\* Two tokens have been redeemed: the table holds the row of each.
C27_Witness ==
    /\ Len(audit) = 2
    /\ \E r1, r2 \in ReqIds :
          /\ reqs[r1].pc = "done" /\ reqs[r1].res = "Ok"
          /\ reqs[r2].pc = "done" /\ reqs[r2].res = "Ok"
          /\ reqs[r1].tok # reqs[r2].tok
          /\ audit[1].jti = reqs[r1].claims.jti
          /\ audit[2].jti = reqs[r2].claims.jti

\* The /proxy requests answered with an error of a kind.
Rejected(kind) == {r \in ReqIds : reqs[r].pc = "done" /\ reqs[r].res = kind}

\* C28 as stated: replays_blocked counts the /proxy requests rejected with
\* ReplayDetected and nothing else; a request rejected with
\* ServiceUnavailable by the full replay store leaves it as it is.
C28_ReplaysBlockedCountsReplays ==
    metrics.replays_blocked = Cardinality(Rejected("ReplayDetected"))

\* C33: a token redeemed with success before a restart is not redeemed
\* with success after it.
C33_NoRedemptionAcrossRestart ==
    \A r1, r2 \in ReqIds :
        /\ reqs[r1].pc = "done" /\ reqs[r1].res = "Ok"
        /\ reqs[r2].pc = "done" /\ reqs[r2].res = "Ok"
        /\ reqs[r1].boot < reqs[r2].boot
        => reqs[r1].tok # reqs[r2].tok

\* A token redeemed before the restart was presented after it, before its
\* expiry, and rejected.
C33_Witness ==
    \E r1, r2 \in ReqIds :
        /\ reqs[r1].pc = "done" /\ reqs[r1].res = "Ok" /\ reqs[r1].boot = 1
        /\ reqs[r2].pc = "done" /\ reqs[r2].boot = 2
        /\ reqs[r2].tok = reqs[r1].tok
        /\ reqs[r2].res = "InvalidSignature"
        /\ ~ is_expired(minted[reqs[r1].tok].claims, now)

\* C2: of the /proxy requests that present one token, at most one gets the
\* successful response.
C2_AtMostOneRedemption ==
    \A k \in 1..Len(minted) : Cardinality(Succeeded(k)) <= 1

\* Two requests with one token both passed check_and_insert (the entry of
\* the first was evicted in between); the first succeeded, the second was
\* stopped at the audit table.
C2_Witness ==
    \E r1, r2 \in ReqIds :
        /\ r1 # r2
        /\ reqs[r1].tok = reqs[r2].tok
        /\ reqs[r1].pc = "done" /\ reqs[r1].res = "Ok"
        /\ reqs[r2].pc = "done" /\ reqs[r2].res = "Database"

\* C3 as stated: once a token has been redeemed, for as long as verify_token
\* accepts it the replay store answers ReplayDetected for its jti (the entry
\* has not been evicted).
C3_ReplayDetectedWhileAccepted ==
    \A k \in 1..Len(minted) :
        ( /\ Succeeded(k) # {}
          /\ verify_token(minted[k].token, verifying_key(signing_key), now).ok )
        => /\ minted[k].claims.jti \in Live(entries, now)
           /\ check_and_insert(entries, minted[k].claims.jti,
                               timestamp(minted[k].claims.exp), now).res
                 = "ReplayDetected"

\* ----------------------------------------- claims on the RateLimiter

\* The check_ip calls up to call i that fell in the global window of call i.
GlobalCalls(i) ==
    {j \in 1..i : rlog[j].tier = "ip" /\ rlog[j].gstart = rlog[i].gstart}

\* The calls up to call i for the key of call i that reached the key's
\* counter in the window of call i.
KeyCalls(i) ==
    {j \in 1..i : /\ rlog[j].tier = rlog[i].tier
                  /\ rlog[j].key = rlog[i].key
                  /\ rlog[j].res # "Global"
                  /\ rlog[j].kstart = rlog[i].kstart}

\* C17: within one window of a counter the first `limit` calls that reach
\* it are admitted and every further one is rejected with the error of the
\* counter's tier: Global before PerIp in check_ip, PerUser in check_user.
C17_FirstLimitCallsAdmitted ==
    \A i \in 1..Len(rlog) :
        IF rlog[i].tier = "user"
        THEN /\ rlog[i].res =
                   IF Cardinality(KeyCalls(i)) <= per_user_per_min
                   THEN "Ok" ELSE "PerUser"
             /\ rlog[i].at - rlog[i].kstart <= Secs(WINDOW)
        ELSE /\ rlog[i].at - rlog[i].gstart <= Secs(GLOBAL_WINDOW)
             /\ IF Cardinality(GlobalCalls(i)) > global_per_sec
                THEN rlog[i].res = "Global"
                ELSE /\ rlog[i].res =
                           IF Cardinality(KeyCalls(i)) <= per_ip_per_min
                           THEN "Ok" ELSE "PerIp"
                     /\ rlog[i].at - rlog[i].kstart <= Secs(WINDOW)

\* One user called per_user_per_min + 1 times in one window: the last call
\* is rejected PerUser, the others were admitted.
C17_Witness ==
    /\ Len(rlog) = per_user_per_min + 1
    /\ \A i \in 1..Len(rlog) :
          /\ rlog[i].tier = "user"
          /\ rlog[i].key = 1
          /\ rlog[i].kstart = rlog[1].kstart
          /\ rlog[i].res = IF i <= per_user_per_min THEN "Ok" ELSE "PerUser"

\* A call was made in this step.
RateStep == Len(rlog') = Len(rlog) + 1

\* Whether the key's own tier admits a call at instant t.
TierAdmits(m, key, limit, t) ==
    increment(EntryOrNew(m, key, t), limit, Secs(WINDOW), t).ok

\* The keys other than that of the call just made.
OtherIps == {ip \in Ips : Last(rlog').tier # "ip" \/ Last(rlog').key # ip}
OtherUsers == {u \in Users : Last(rlog').tier # "user" \/ Last(rlog').key # u}

\* C18 as stated: a call for one key changes neither the counter of another
\* key nor the result a call for another key would get, and check_user
\* changes no per-IP and no global counter.
C18_KeysIsolated ==
    [][ RateStep =>
          /\ \A ip \in OtherIps :
                /\ CounterOf(rl'.ip_counts, ip) = CounterOf(rl.ip_counts, ip)
                /\ check_ip(rl', ip, now').res = check_ip(rl, ip, now').res
          /\ \A u \in OtherUsers :
                /\ CounterOf(rl'.user_counts, u) = CounterOf(rl.user_counts, u)
                /\ check_user(rl', u, now').res = check_user(rl, u, now').res
          /\ Last(rlog').tier = "user" =>
                /\ rl'.ip_counts = rl.ip_counts
                /\ rl'.global_count = rl.global_count
      ]_vars

\* The counter of a key is as it was, or the cleanup of check_ip removed it
\* when its window had started 120 s before or earlier.
KeptOrEvicted(m1, m0, key) ==
    \/ CounterOf(m1, key) = CounterOf(m0, key)
    \/ /\ Last(rlog').tier = "ip"
       /\ key \in DOMAIN m0
       /\ key \notin DOMAIN m1
       /\ now' - m0[key].window_start >= Secs(WINDOW) + Secs(CLEANUP_SLACK)

\* C18, amended: a call for one key leaves the counter of every other key
\* as it was, but for the stale counters the cleanup of check_ip removes,
\* and does not change whether the per-IP or per-user tier admits another
\* key; check_user changes nothing but the counter of its user.
C18_PerKeyTiersIsolated ==
    [][ RateStep =>
          /\ \A ip \in OtherIps :
                /\ KeptOrEvicted(rl'.ip_counts, rl.ip_counts, ip)
                /\ TierAdmits(rl'.ip_counts, ip, per_ip_per_min, now')
                      = TierAdmits(rl.ip_counts, ip, per_ip_per_min, now')
          /\ \A u \in OtherUsers :
                /\ KeptOrEvicted(rl'.user_counts, rl.user_counts, u)
                /\ TierAdmits(rl'.user_counts, u, per_user_per_min, now')
                      = TierAdmits(rl.user_counts, u, per_user_per_min, now')
          /\ Last(rlog').tier = "user" =>
                /\ rl'.ip_counts = rl.ip_counts
                /\ rl'.global_count = rl.global_count
                /\ rl'.last_cleanup = rl.last_cleanup
                /\ \A u \in OtherUsers :
                      CounterOf(rl'.user_counts, u) = CounterOf(rl.user_counts, u)
      ]_vars

\* IP 1 has called, then a user and IP 2 call within the window of IP 1: the
\* counter of IP 1 is as its own call left it.
C18_Witness ==
    /\ Len(rlog) = 3
    /\ rlog[1].tier = "ip" /\ rlog[1].key = 1 /\ rlog[1].res = "Ok"
    /\ rlog[2].tier = "user"
    /\ rlog[3].tier = "ip" /\ rlog[3].key = 2 /\ rlog[3].res = "Ok"
    /\ rl.ip_counts[1] = [count |-> 1, window_start |-> rlog[1].at]
    /\ rlog[3].at - rlog[1].at <= Secs(WINDOW)

\* The per-key counters of the tier of a call.
KeyCounters(st, tier) == IF tier = "ip" THEN st.ip_counts ELSE st.user_counts

\* The key of the call just made has a counter whose window started more
\* than the window length before the call.
WindowElapsed ==
    LET c == Last(rlog')
        m == KeyCounters(rl, c.tier)
    IN  c.key \in DOMAIN m /\ now' - m[c.key].window_start > Secs(WINDOW)

\* The call just made was rejected by the tier of its key: the count of the
\* key's counter went up by one and its window_start stayed.
RejectionCounted ==
    LET c  == Last(rlog')
        m0 == KeyCounters(rl, c.tier)
        m1 == KeyCounters(rl', c.tier)
    IN  c.res \in {"PerIp", "PerUser"} =>
            /\ c.key \in DOMAIN m0
            /\ m1[c.key] = [m0[c.key] EXCEPT !.count = @ + 1]

\* The call just made started a window of its key and was admitted.
Readmitted ==
    LET c == Last(rlog')
    IN  /\ c.res = "Ok"
        /\ KeyCounters(rl', c.tier)[c.key] = [count |-> 1, window_start |-> now']

\* C37 as stated: once more than the window has passed since the
\* window_start of a key's counter, the next call for the key starts a new
\* window and is admitted; a rejected call adds one to the count and
\* leaves window_start.
C37_AlwaysReadmitted ==
    [][ RateStep => /\ WindowElapsed => Readmitted
                    /\ RejectionCounted ]_vars

\* C37, amended: the same, for the next call that reaches the key's
\* counter: a check_ip call the global tier rejects leaves the counter of
\* its IP as it was.
C37_ReadmittedByOwnTier ==
    [][ RateStep =>
          /\ WindowElapsed =>
                IF Last(rlog').res = "Global"
                THEN rl'.ip_counts = maybe_cleanup(rl, now').ip_counts
                ELSE Readmitted
          /\ RejectionCounted ]_vars

\* An IP is admitted, rejected PerIp within its window, and admitted again
\* by the first call after the window, which starts a window.
C37_Witness ==
    /\ Len(rlog) = 3
    /\ \A i \in 1..3 : rlog[i].tier = "ip" /\ rlog[i].key = 1
    /\ rlog[1].res = "Ok" /\ rlog[2].res = "PerIp" /\ rlog[3].res = "Ok"
    /\ rlog[2].kstart = rlog[1].kstart
    /\ rlog[3].at - rlog[1].kstart > Secs(WINDOW)
    /\ rl.ip_counts[1] = [count |-> 1, window_start |-> rlog[3].at]

\* C38: every check_ip and check_user call gets the result that a limiter
\* which never evicts a counter gives to the same call after the same calls
\* at the same instants.
C38_CleanupInvisible ==
    [][ RateStep =>
          LET c == Last(rlog')
          IN  c.res = IF c.tier = "ip"
                      THEN check_ip_NoCleanup(rl_ref, c.key, now').res
                      ELSE check_user(rl_ref, c.key, now').res
      ]_vars

\* An IP calls, another IP calls more than 300 s later, which evicts the
\* counter of the first, and the first IP calls again: the limiter holds
\* what the one that never evicts holds, and at the call before it did not.
C38_Witness ==
    /\ Len(rlog) = 3
    /\ \A i \in 1..3 : rlog[i].tier = "ip"
    /\ rlog[1].key = 1 /\ rlog[2].key = 2 /\ rlog[3].key = 1
    /\ rlog[2].at - rlog[1].at > Secs(CLEANUP_INTERVAL)
    /\ rlog[3].res = "Ok"
    /\ rl.ip_counts = rl_ref.ip_counts
    /\ rl.last_cleanup # rl_ref.last_cleanup

\* The length of the window and the limit of the tier of a call.
WindowOf(tier) == Secs(WINDOW)
LimitOf(tier) == IF tier = "ip" THEN per_ip_per_min ELSE per_user_per_min

\* C19 as stated: in no interval as long as the window are more than
\* `limit` requests admitted: per IP and per user in 60 s, globally in 1 s.
C19_SlidingWindow ==
    \A i \in 1..Len(rlog) :
        rlog[i].res = "Ok" =>
            /\ Cardinality({j \in 1..i : /\ rlog[j].res = "Ok"
                                         /\ rlog[j].tier = rlog[i].tier
                                         /\ rlog[j].key = rlog[i].key
                                         /\ rlog[i].at - rlog[j].at < WindowOf(rlog[i].tier)})
                  <= LimitOf(rlog[i].tier)
            /\ rlog[i].tier = "ip" =>
                  Cardinality({j \in 1..i : /\ rlog[j].res = "Ok"
                                            /\ rlog[j].tier = "ip"
                                            /\ rlog[i].at - rlog[j].at < Secs(GLOBAL_WINDOW)})
                      <= global_per_sec

\* ------------------------------------------- claims on PolicyEngine

\* The action carries an amount: an "amount" segment followed by a numeral.
CarriesAmount(shape) ==
    shape \in {"amount", "amount_mid", "amount_late", "zeros", "two_amounts"}

\* The limits without those of the types other than type.
OwnLimit(limits, type) == [t \in DOMAIN limits \cap {type} |-> limits[t]]

\* C16 as stated: check(action) is a Violation iff the leading segment of the action
\* has a limit L and the action carries an amount a > L (so "X:amount:a" is
\* Ok iff a <= L); the Violation names the type, L and a; the limits of
\* other types do not change the result.
C16_ViolationIffOverOwnLimit ==
    pol_out.done =>
        LET over == /\ pol_in.type \in DOMAIN pol_in.limits
                    /\ CarriesAmount(pol_in.shape)
                    /\ pol_in.a > pol_in.limits[pol_in.type]
        IN  /\ pol_out.res.ok <=> ~over
            /\ over => pol_out.res = [ok |-> FALSE, action_type |-> pol_in.type,
                                      limit |-> pol_in.limits[pol_in.type],
                                      requested |-> pol_in.a]
            /\ pol_out.res = PolicyCheck(OwnLimit(pol_in.limits, pol_in.type),
                                         pol_in.action)

\* The shapes of action whose amount value does not parse as a u64: no
\* segment after "amount", a segment that is no numeral, the numeral of 2^64.
Unparsable == {"no_value", "not_number", "too_big", "bad_then_amount"}

\* C36: check passes, whatever the limits, for an action whose amount value
\* does not parse as a u64 (no segment after the first "amount" segment, a
\* segment that is no numeral, a numeral above 2^64 - 1); and only the first
\* "amount" segment counts: a second one after it changes nothing.
C36_UnparsableAmountPasses ==
    pol_out.done =>
        /\ pol_in.shape \in Unparsable => pol_out.res.ok
        /\ pol_in.shape = "two_amounts" =>
              pol_out.res = PolicyCheck(pol_in.limits,
                                        BuildAction(pol_in.type, "amount", pol_in.a))

\* The numeral of 2^64 checked against a limit of 0 for its type: Ok.
C36_Witness ==
    /\ pol_out.done
    /\ pol_in.shape = "too_big"
    /\ pol_in.type \in DOMAIN pol_in.limits
    /\ pol_in.limits[pol_in.type] = 0
    /\ pol_out.res.ok

\* The /mint requests that have ended with res.
MintEnded(res) == {i \in 1..Len(mreq) : mreq[i].pc = "done" /\ mreq[i].res = res}

\* C40: whenever every /mint request sent has completed, tokens_minted is
\* the number of requests that returned a token and policy_denials the
\* number rejected by policy; and the step in which a request is rejected
\* by policy adds one to policy_denials and changes no other counter.
C40_CountersMatchOutcomes ==
    /\ []( (\A i \in 1..Len(mreq) : mreq[i].pc = "done") =>
             /\ metrics.tokens_minted = Cardinality(MintEnded("Ok"))
             /\ metrics.policy_denials = Cardinality(MintEnded("PolicyViolation")) )
    /\ [][ \A i \in 1..Len(mreq) :
              ( mreq[i].pc # "done" /\ mreq'[i].pc = "done"
                /\ mreq'[i].res = "PolicyViolation" ) =>
                  metrics' = [metrics EXCEPT !.policy_denials = @ + 1]
         ]_vars

\* Three requests have completed: one was rejected by policy, one got a
\* token, one failed the identity check; each is counted once.
C40_Witness ==
    /\ Len(mreq) = 3
    /\ \A i \in 1..3 : mreq[i].pc = "done"
    /\ mreq[1].res = "PolicyViolation"
    /\ mreq[2].res = "Ok"
    /\ mreq[3].res = "Unauthorized"
    /\ metrics.policy_denials = 1
    /\ metrics.tokens_minted = 1
    /\ metrics.oidc_failures = 1

\* ------------------------------------------------ the steps of /mint

\* A /mint request was handled in this step.
MintStep == mint_count' = mint_count + 1

\* The request fails input validation: sub empty, longer than 256 or with a
\* control character; action empty, longer than 64 or with a character that
\* is no letter, digit, '_', ':' or '-'.
FailsValidation(req) ==
    \/ req.sub = << >>
    \/ Len(req.sub) > 256
    \/ \E i \in 1..Len(req.sub) : req.sub[i] < 32 \/ req.sub[i] = 127
    \/ req.action = << >>
    \/ Len(req.action) > 64
    \/ \E i \in 1..Len(req.action) :
          req.action[i] \notin (48..57) \cup (65..90) \cup (97..122) \cup {95, 58, 45}

\* The id_token of the request verifies and is bound to the requested sub.
BoundIdToken(req) ==
    /\ req.id_token.present
    /\ req.id_token.verifies
    /\ req.id_token.identity = req.sub

\* The request fails the identity check of the configured service.
FailsIdentity(req) ==
    /\ oidc
    /\ IF req.id_token.present THEN ~BoundIdToken(req) ELSE require_oidc

FailsPolicy(req) == ~PolicyCheck(PolicyLimits, req.action).ok

\* The result of the earliest failing step of the pipeline.
FirstMintFailure(req) ==
    IF FailsValidation(req) THEN "InvalidToken"
    ELSE IF FailsIdentity(req) THEN "Unauthorized"
    ELSE IF FailsPolicy(req) THEN "PolicyViolation"
    ELSE "Ok"

\* C11: /mint returns the error of the earliest failing step of validation,
\* identity check, policy check; a failing request runs no later step (the
\* counters of later steps stay), yields no token and leaves tokens_minted;
\* a request failing no step yields one token with the clamped TTL.
C11_MintStopsAtFirstFailure ==
    [][ MintStep =>
          LET req == last_mint'.req
              res == last_mint'.res
          IN  /\ res = FirstMintFailure(req)
              /\ res # "Ok" =>
                    /\ minted' = minted
                    /\ metrics'.tokens_minted = metrics.tokens_minted
              /\ res = "InvalidToken" => metrics' = metrics
              /\ res = "Unauthorized" =>
                    metrics' = [metrics EXCEPT !.oidc_failures = @ + 1]
              /\ res = "PolicyViolation" =>
                    metrics' = [metrics EXCEPT !.policy_denials = @ + 1]
              /\ res = "Ok" =>
                    /\ Len(minted') = Len(minted) + 1
                    /\ SubSeq(minted', 1, Len(minted)) = minted
                    /\ Last(minted').claims.sub = req.sub
                    /\ Last(minted').claims.action = req.action
                    /\ metrics' = [metrics EXCEPT !.tokens_minted = @ + 1]
      ]_vars

\* A request that fails validation, the identity check and the policy check
\* got the error of validation, and nothing was counted or minted.
C11_Witness ==
    /\ FailsValidation(last_mint.req)
    /\ FailsIdentity(last_mint.req)
    /\ FailsPolicy(last_mint.req)
    /\ last_mint.res = "InvalidToken"
    /\ metrics = MetricsNew
    /\ minted = << >>
    /\ mint_count = 2

\* C31 as stated: a /mint request whose sub or action fails input
\* validation is rejected with the Validation kind, status 400, and mints
\* no token.
C31_ValidationFailureIs400 ==
    [][ MintStep /\ FailsValidation(last_mint'.req) =>
          /\ last_mint'.res = "Validation"
          /\ status_of([kind |-> last_mint'.res, detail |-> ""]) = 400
          /\ minted' = minted
      ]_vars

\* C12 as stated: every /mint request handled has passed the limiter (the
\* limiter counted it, globally and for its IP), and a request beyond the
\* per-IP limit within one window is answered RateLimited.
C12_MintPassesRateLimit ==
    mint_count > 0 =>
        /\ DOMAIN rl.ip_counts # {}
        /\ rl.global_count.count > 0
        /\ (mint_count > per_ip_per_min /\ now <= Secs(WINDOW))
              => last_mint.res = "RateLimited"

\* C13: with an identity verifier configured, a valid request that carries
\* an id_token gets a token only if the id_token verifies and its identity
\* (email, else sub) equals the requested sub; otherwise it fails
\* Unauthorized, oidc_failures goes up by one and no token is minted.
C13_IdTokenMustVerifyAndMatch ==
    [][ ( /\ MintStep
          /\ oidc
          /\ last_mint'.req.id_token.present
          /\ ~FailsValidation(last_mint'.req) )
        => IF BoundIdToken(last_mint'.req)
           THEN last_mint'.res \in {"Ok", "PolicyViolation"}
           ELSE /\ last_mint'.res = "Unauthorized"
                /\ metrics'.oidc_failures = metrics.oidc_failures + 1
                /\ minted' = minted
      ]_vars

\* An id_token that verifies for another identity was refused after one
\* bound to the requested sub had been accepted.
C13_Witness ==
    /\ oidc
    /\ Len(minted) = 1
    /\ mint_count = 2
    /\ last_mint.req.id_token.present
    /\ last_mint.req.id_token.verifies
    /\ last_mint.req.id_token.identity # last_mint.req.sub
    /\ ~FailsValidation(last_mint.req)
    /\ last_mint.res = "Unauthorized"
    /\ metrics.oidc_failures = 1

\* C14: with an identity verifier configured, a valid request without
\* id_token fails Unauthorized and mints nothing when require_oidc is true,
\* and goes on to the policy check (and is minted if it passes) when
\* require_oidc is false.
C14_MissingIdToken ==
    [][ ( /\ MintStep
          /\ oidc
          /\ ~last_mint'.req.id_token.present
          /\ ~FailsValidation(last_mint'.req) )
        => IF require_oidc
           THEN /\ last_mint'.res = "Unauthorized"
                /\ minted' = minted
                /\ metrics'.oidc_failures = metrics.oidc_failures + 1
           ELSE /\ last_mint'.res =
                      IF FailsPolicy(last_mint'.req) THEN "PolicyViolation" ELSE "Ok"
                /\ last_mint'.res = "Ok" => Len(minted') = Len(minted) + 1
      ]_vars

\* require_oidc is true and a valid request without id_token was refused.
C14_Witness ==
    /\ oidc /\ require_oidc
    /\ mint_count > 0
    /\ ~last_mint.req.id_token.present
    /\ ~FailsValidation(last_mint.req)
    /\ ~FailsPolicy(last_mint.req)
    /\ last_mint.res = "Unauthorized"
    /\ minted = << >>

\* C15 as stated: when require_oidc is true, a token is minted only for a
\* request whose id_token verified and is bound to the requested sub,
\* whether or not an identity verifier is configured.
C15_RequireOidcNeverBypassed ==
    (require_oidc /\ last_mint.res = "Ok") => BoundIdToken(last_mint.req)

\* ------------------------------------------------------ claims on /mint

\* C10: every minted token has exp - iat between 1 s and 300 s.
C10_TtlWithinBounds ==
    \A k \in 1..Len(minted) :
        /\ minted[k].claims.exp - minted[k].claims.iat >= TTL_MIN * TicksPerSec
        /\ minted[k].claims.exp - minted[k].claims.iat <= TTL_MAX * TicksPerSec

\* A request with a negative ttl_seconds got a token that lives one second,
\* after one with a ttl_seconds above 300 got one that lives 300 s.
C10_Witness ==
    /\ Len(minted) = 2
    /\ last_mint.res = "Ok"
    /\ last_mint.req.ttl_seconds < 0
    /\ minted[2].claims.exp - minted[2].claims.iat = TTL_MIN * TicksPerSec
    /\ minted[1].claims.exp - minted[1].claims.iat = TTL_MAX * TicksPerSec

\* ----------------------------------------------- claims on verify_token

\* The defects that stop verify_token before it verifies the signature.
PreSigDefects ==
    { "oversize", "nodot", "badchar_payload", "badchar_sig", "sig_pad", "sig_short" }

\* The error of the first check, in the order size, separator, whitelist,
\* signature decoding, signature verification, payload decoding, JSON,
\* expiry, that the token built from (c, key, D) fails at instant t.
FirstFailure(c, key, D, t) ==
    IF "oversize" \in D THEN "InvalidToken"
    ELSE IF "nodot" \in D THEN "InvalidToken"
    ELSE IF "badchar_payload" \in D \/ "badchar_sig" \in D THEN "InvalidToken"
    ELSE IF "sig_pad" \in D THEN "Base64"
    ELSE IF "sig_short" \in D THEN "InvalidToken"
    ELSE IF key # signing_key THEN "InvalidSignature"
    ELSE IF "payload_pad" \in D THEN "Base64"
    ELSE IF "json_garbage" \in D THEN "Serialization"
    ELSE IF t > c.exp THEN "TokenExpired"
    ELSE "none"

Verified == vt_in.shape = "built" /\ vt_out.err # "idle"

\* C6: the error of verify_token is that of the first failing check in the
\* fixed order, and the payload is decoded and parsed only when the
\* signature verified.
C6_FirstFailingCheckDecides ==
    Verified =>
        /\ vt_out.err = FirstFailure(vt_in.c, vt_in.key, vt_in.defects, vt_out.at)
        /\ vt_out.parsed =>
              (vt_in.defects \cap PreSigDefects = {} /\ vt_in.key = signing_key)

\* An expired token signed with another key is rejected InvalidSignature.
C6_Witness ==
    /\ Verified
    /\ vt_in.defects = {}
    /\ vt_in.key # signing_key
    /\ vt_out.at > vt_in.c.exp
    /\ vt_out.err = "InvalidSignature"
    /\ ~vt_out.parsed

\* C7: verify_token of sign_token(c, k) under k's verifying key, before c
\* expires, succeeds and returns c.
C7_SignVerifyRoundTrip ==
    ( /\ Verified
      /\ vt_in.defects = {}
      /\ vt_in.key = signing_key
      /\ vt_out.at < vt_in.c.exp )
    => (vt_out.ok /\ vt_out.claims = vt_in.c)

C7_Witness ==
    /\ Verified
    /\ vt_in.defects = {}
    /\ vt_in.key = signing_key
    /\ Len(vt_in.c.sub) = 2 /\ Len(vt_in.c.action) = 2
    /\ vt_in.c.exp >= 256
    /\ vt_out.ok
    /\ vt_out.claims = vt_in.c

\* C9 as stated: a correctly signed token is accepted while exp > now and is
\* rejected TokenExpired whenever now >= exp.
C9_ExpiredFromExpOn ==
    ( /\ Verified
      /\ vt_in.defects = {}
      /\ vt_in.key = signing_key )
    => IF vt_out.at >= vt_in.c.exp
       THEN vt_out.err = "TokenExpired"
       ELSE vt_out.ok

\* C8 as stated: a valid token with one character changed is rejected, and
\* the error is InvalidSignature or InvalidToken.
C8_TamperedRejectedAsInvalid ==
    (vt_in.shape = "tampered" /\ vt_out.err # "idle")
    => (~vt_out.ok /\ vt_out.err \in {"InvalidSignature", "InvalidToken"})

\* ------------------------------------------------- claims on the JtiStore

\* The calls logged so far with jti j.
CallsOf(j) == {i \in 1..Len(jlog) : jlog[i].jti = j}

\* An earlier call with the same jti returned Ok and the entry it inserted
\* is still live in the second of call i.
PriorLive(i) ==
    \E k \in 1..(i - 1) :
        /\ jlog[k].jti = jlog[i].jti
        /\ jlog[k].res = "Ok"
        /\ jlog[k].exp > jlog[i].at

\* The store held max_capacity live entries when call i ran.
FullAt(i) == Cardinality(LiveSec(jlog[i].before, jlog[i].at)) >= max_capacity

\* C1 as stated: of the calls with one jti, exactly one returned Ok and every
\* other one returned ReplayDetected.
C1_ExactlyOneOkOthersReplay ==
    \A j \in Jtis :
        CallsOf(j) # {} =>
            /\ Cardinality({i \in CallsOf(j) : jlog[i].res = "Ok"}) = 1
            /\ \A i \in CallsOf(j) : jlog[i].res \in {"Ok", "ReplayDetected"}

\* C1 amended: a call made while the entry of an earlier successful call with
\* the same jti is live (exp > now in whole seconds) never returns Ok; it
\* returns ReplayDetected, or ServiceUnavailable when the store holds
\* max_capacity live entries; a call with no such entry live returns Ok
\* unless the store is at capacity.
C1_AtMostOneOkWhileLive ==
    \A i \in 1..Len(jlog) :
        /\ PriorLive(i) => jlog[i].res \in {"ReplayDetected", "ServiceUnavailable"}
        /\ jlog[i].res = "ServiceUnavailable" <=> FullAt(i)
        /\ ~FullAt(i) => (jlog[i].res = "Ok" <=> ~PriorLive(i))

\* Three calls with one jti within its lifetime: Ok, then two ReplayDetected.
C1_Witness ==
    /\ Len(jlog) = 3
    /\ \A i \in 1..3 : jlog[i].jti = jlog[1].jti /\ jlog[i].exp > jlog[i].at
    /\ jlog[1].res = "Ok"
    /\ jlog[2].res = "ReplayDetected"
    /\ jlog[3].res = "ReplayDetected"

\* The entries of the store of call i that were live when it ran.
LiveBefore(i) ==
    [k \in LiveSec(jlog[i].before, jlog[i].at) |-> jlog[i].before[k]]

\* C34: check_and_insert evicts the expired entries, then tests the
\* capacity, then the presence of the jti, then inserts: with max_capacity
\* live entries it returns ServiceUnavailable, also for a jti that is
\* present; it returns ReplayDetected only below capacity, for a jti that is
\* present; else it inserts; whatever it returns the expired entries are
\* gone.
C34_EvictCapacityPresenceInsert ==
    \A i \in 1..Len(jlog) :
        LET live == LiveBefore(i)
            full == Cardinality(DOMAIN live) >= max_capacity
            present == jlog[i].jti \in DOMAIN live
        IN  /\ full => jlog[i].res = "ServiceUnavailable" /\ jlog[i].after = live
            /\ jlog[i].res = "ReplayDetected" =>
                   ~full /\ present /\ jlog[i].after = live
            /\ ~full /\ present => jlog[i].res = "ReplayDetected"
            /\ ~full /\ ~present =>
                   /\ jlog[i].res = "Ok"
                   /\ jlog[i].after = MapInsert(live, jlog[i].jti, jlog[i].exp)

\* A call with a jti that is live in a store at capacity: ServiceUnavailable,
\* not ReplayDetected.
C34_Witness ==
    \E i \in 1..Len(jlog) :
        /\ Cardinality(DOMAIN LiveBefore(i)) = max_capacity
        /\ jlog[i].jti \in DOMAIN LiveBefore(i)
        /\ jlog[i].res = "ServiceUnavailable"

\* C4: a call with a fresh jti on a store holding max_capacity live entries
\* returns ServiceUnavailable and leaves the store as it was; the store never
\* holds more than max_capacity entries.
C4_CapacityNeverExceeded ==
    /\ Cardinality(DOMAIN entries) <= max_capacity
    /\ \A i \in 1..Len(jlog) :
          ( /\ Cardinality(LiveSec(jlog[i].before, jlog[i].at)) = max_capacity
            /\ jlog[i].jti \notin DOMAIN jlog[i].before )
          => /\ jlog[i].res = "ServiceUnavailable"
             /\ jlog[i].after = jlog[i].before

C4_Witness ==
    \E i \in 1..Len(jlog) :
        /\ Cardinality(LiveSec(jlog[i].before, jlog[i].at)) = max_capacity
        /\ jlog[i].jti \notin DOMAIN jlog[i].before
        /\ jlog[i].res = "ServiceUnavailable"

\* Every entry of the store had exp <= now when call i ran.
AllExpiredAt(i) == \A k \in DOMAIN jlog[i].before : jlog[i].before[k] <= jlog[i].at

\* C5: a call made when every entry of the store has exp <= now returns Ok,
\* whatever the number of entries.
C5_InsertAfterAllExpired ==
    \A i \in 1..Len(jlog) : AllExpiredAt(i) => jlog[i].res = "Ok"

\* A store filled to max_capacity, all entries expired, then an Ok.
C5_Witness ==
    \E i \in 1..Len(jlog) :
        /\ Cardinality(DOMAIN jlog[i].before) = max_capacity
        /\ AllExpiredAt(i)
        /\ jlog[i].res = "Ok"

====
